---- MODULE Spec2Model ----
(***************************************************************************)
(* Action execution engine of Gesture-Flow: the typed action model and its *)
(* validator (action_types.py) and the dispatcher ActionExecutor           *)
(* (action_executor.py): execute_action, the dispatch primitive            *)
(* _execute_action_sync, the macro sub-engine, the execution history, the  *)
(* emergency-stop flag and the two notification callbacks; and the path of  *)
(* a recognised gesture through its mapping to the engine (main.py,        *)
(* action_mapping_manager.py).                                             *)
(***************************************************************************)
EXTENDS Integers, Sequences, FiniteSets, TLC

\* ------------------------------------------------------------------ bounds
\* number of execute_action calls made by the caller in one behaviour
MaxCalls == 2
\* max_action_history of the run (the code's default is 1000)
MaxHistory == 2
\* queue_max_size of the run (ACTION_EXECUTION_CONFIG has 100)
QueueMaxSize == 1
MaxMappings == 3

\* --------------------------------------------------------- configuration
\* ACTION_EXECUTION_CONFIG['execution_thread_pool']
max_workers == 2
\* upper end of the coordinate range of _validate_mouse_action
MaxCoord == 10000
\* text length limit of _validate_keyboard_action
MaxTextLen == 1000
\* ACTION_TYPES_CONFIG['macro']['max_sequence_length']
max_sequence_length == 20

\* Python's None for an optional field; a present value v is <<v>>
None == <<>>
Some(v) == <<v>>
IsNone(o) == o = <<>>
Val(o) == o[1]

\* strings that the code searches are sequences of characters
Chars(s) ==
  CASE s = "" -> <<>>
    [] s = "a" -> <<"a">>
    [] s = "/bin" -> <<"/", "b", "i", "n">>
    [] s = "/Bin/a" -> <<"/", "B", "i", "n", "/", "a">>
    [] s = "/BIN/a" -> <<"/", "B", "I", "N", "/", "a">>
    [] s = "/usr" -> <<"/", "u", "s", "r">>
    [] s = "/usr/a" -> <<"/", "u", "s", "r", "/", "a">>
    [] s = "f4" -> <<"f", "4">>
    [] s = "alt" -> <<"a", "l", "t">>
    [] s = "delete" -> <<"d", "e", "l", "e", "t", "e">>
    [] s = "alt+f4" -> <<"a", "l", "t", "+", "f", "4">>
    [] s = "ctrl+alt+del" -> <<"c", "t", "r", "l", "+", "a", "l", "t", "+", "d", "e", "l">>
    [] OTHER -> <<s>>

\* str.lower() on the letters the strings above are written with
lower(s) ==
  [k \in 1..Len(s) |-> CASE s[k] = "B" -> "b"
                         [] s[k] = "I" -> "i"
                         [] s[k] = "N" -> "n"
                         [] OTHER -> s[k]]

\* Python's `sub in s` on strings
Contains(sub, s) ==
  \E k \in 0..(Len(s) - Len(sub)) : SubSeq(s, k + 1, k + Len(sub)) = sub

\* str(list_of_strings): "['a', 'b']"
RECURSIVE ReprItems(_)
ReprItems(keys) ==
  IF keys = <<>> THEN <<>>
  ELSE <<"'">> \o Chars(keys[1]) \o <<"'">>
       \o (IF Len(keys) > 1 THEN <<",", " ">> ELSE <<>>)
       \o ReprItems(Tail(keys))
ReprList(keys) == <<"[">> \o ReprItems(keys) \o <<"]">>

\* ACTION_TYPES_CONFIG: enabled flag and allowed subtypes of each type
TypeEnabled(type) == type \in {"mouse", "keyboard", "application", "macro"}
AllowedActions(type) ==
  CASE type = "mouse" -> {"click", "move_to", "drag", "scroll"}
    [] type = "keyboard" -> {"key_press", "key_combination", "type_text"}
    [] type = "application" -> {"launch", "close", "focus", "minimize", "maximize"}
    [] type = "macro" -> {"execute", "sequence", "loop"}
    [] type = "system" -> {"shutdown", "restart", "sleep", "lock"}
    [] OTHER -> {}
dangerous_keys == <<"delete", "f4", "alt+f4", "ctrl+alt+del">>
blocked_paths == <<>>
allowed_paths == <<>>
\* ACTION_TYPES_CONFIG[type]['confirmation_required']
confirmation_required ==
  [type \in {"mouse", "keyboard", "application", "macro", "system"} |->
     type \in {"application", "macro", "system"}]
\* ACTION_EXECUTION_CONFIG['require_confirmation']
require_confirmation == [application_launch |-> TRUE, system_commands |-> TRUE]

\* ------------------------------------------------------------ the actions
\* ActionType, by the values of its members
ActionTypes == {"mouse", "keyboard", "application", "macro", "system"}

\* the parameter class from_dict builds for a type
parameters_class_of(type) ==
  CASE type = "mouse" -> "MouseActionParameters"
    [] type = "keyboard" -> "KeyboardActionParameters"
    [] type = "application" -> "ApplicationActionParameters"
    [] type = "macro" -> "MacroActionParameters"
    [] OTHER -> "ActionParameters"

\* the fields of each parameter class that the validator and the dispatcher
\* read; text_len stands for the text of a keyboard action, by its length
FieldsOf(class) ==
  CASE class = "MouseActionParameters" -> {"x", "y", "from_x", "from_y", "to_x", "to_y", "button"}
    [] class = "KeyboardActionParameters" -> {"keys", "text_len", "modifiers"}
    [] class = "ApplicationActionParameters" -> {"path"}
    [] class = "MacroActionParameters" -> {"sequence", "loop_count"}
    [] OTHER -> {}
ParameterFields ==
  {"x", "y", "from_x", "from_y", "to_x", "to_y", "button", "keys", "text_len",
   "modifiers", "path", "sequence", "loop_count"}

\* the defaults of the dataclass fields
ParameterDefaults ==
  [x |-> None, y |-> None, from_x |-> None, from_y |-> None, to_x |-> None,
   to_y |-> None, button |-> "left", keys |-> <<>>, modifiers |-> <<>>,
   text_len |-> 0, path |-> "", sequence |-> <<>>, loop_count |-> 1]

\* hasattr(action.parameters, field)
hasattr(a, field) == field \in FieldsOf(a.parameters_class)

\* An Action, its parameters being of the class of its type and at their
\* defaults. sequence holds the handles of the stored dictionaries of the
\* sub-actions of a macro.
Act(id, type, subtype) ==
  [id |-> id, type |-> type, subtype |-> subtype,
   parameters_class |-> parameters_class_of(type),
   enabled |-> TRUE, requires_confirmation |-> FALSE,
   x |-> None, y |-> None, from_x |-> None, from_y |-> None,
   to_x |-> None, to_y |-> None, button |-> "left",
   keys |-> <<>>, modifiers |-> <<>>, text_len |-> 0, path |-> "",
   sequence |-> <<>>, loop_count |-> 1]

\* a sequence of n copies of a handle
Copies(h, n) == [k \in 1..n |-> h]

\* the actions the caller and the macros draw from
ActionTable ==
  << Act(1, "mouse", "click"),
     [Act(2, "mouse", "move_to") EXCEPT !.x = Some(MaxCoord + 1), !.y = Some(5)],
     [Act(3, "keyboard", "key_press") EXCEPT !.keys = <<"a">>],
     Act(4, "application", "focus"),
     Act(5, "system", "lock"),
     [Act(6, "macro", "sequence") EXCEPT !.sequence = <<1, 3, 1>>, !.loop_count = 2],
     [Act(7, "macro", "sequence") EXCEPT !.sequence = <<1, 2>>],
     [Act(8, "keyboard", "key_combination") EXCEPT !.keys = <<"f4">>, !.modifiers = <<"alt">>],
     [Act(9, "macro", "execute") EXCEPT !.sequence = <<1, 4>>],
     [Act(10, "macro", "execute") EXCEPT !.sequence = <<>>],
     Act(11, "application", "launch"),
     [Act(12, "application", "launch") EXCEPT !.path = "/BIN/a"],
     [Act(13, "application", "launch") EXCEPT !.path = "/usr/a"],
     [Act(14, "macro", "sequence") EXCEPT !.sequence = Copies(1, max_sequence_length + 1)],
     [Act(15, "macro", "sequence") EXCEPT !.sequence = <<1, 2, 5>>],
     [Act(16, "macro", "sequence") EXCEPT !.sequence = <<1, 0>>],
     [Act(17, "macro", "execute") EXCEPT !.sequence = <<9>>],
     [Act(18, "mouse", "click") EXCEPT !.enabled = FALSE],
     [Act(19, "macro", "execute") EXCEPT !.sequence = <<18>>],
     [Act(20, "mouse", "drag") EXCEPT !.x = Some(5), !.y = Some(5),
                                      !.to_x = Some(MaxCoord + 1), !.to_y = Some(5)],
     [Act(21, "mouse", "click") EXCEPT !.requires_confirmation = TRUE],
     [Act(22, "mouse", "click") EXCEPT !.button = "fourth"],
     [Act(23, "mouse", "drag") EXCEPT !.from_x = Some(0), !.from_y = Some(0),
                                      !.to_x = Some(MaxCoord), !.to_y = Some(5)],
     [Act(24, "keyboard", "type_text") EXCEPT !.text_len = MaxTextLen + 1],
     [Act(25, "mouse", "scroll") EXCEPT !.x = Some(0 - 1)],
     [Act(26, "macro", "sequence") EXCEPT !.sequence = Copies(3, max_sequence_length)],
     [Act(27, "macro", "sequence") EXCEPT !.sequence = <<1>>, !.loop_count = 0],
     Act(28, "application", "close"),
     Act(29, "application", "minimize"),
     Act(30, "mouse", "hover") >>
ActionIds == 1..Len(ActionTable)

\* Action.to_dict: asdict turns the parameters into the dictionary of the
\* fields of their class; the type is stored by its value
to_dict(a) ==
  [id |-> a.id, type |-> a.type, subtype |-> a.subtype,
   parameters |-> [field \in FieldsOf(a.parameters_class) |-> a[field]],
   enabled |-> a.enabled, requires_confirmation |-> a.requires_confirmation]

\* the stored dictionary a handle of a macro's sequence stands for: the
\* dictionary of an action of the table, or one that has no 'type'
action_data(h) ==
  IF h \in ActionIds THEN to_dict(ActionTable[h])
  ELSE [id |-> h, subtype |-> "click"]

\* data.get(key, default)
get(data, key, default) == IF key \in DOMAIN data THEN data[key] ELSE default

\* the exception Action.from_dict raises on a dictionary, "" when it builds
\* the action: a missing key, a type that is no member of ActionType, a
\* parameter that the class of the type does not take
from_dict_raises(data) ==
  IF "type" \notin DOMAIN data THEN "KeyError"
  ELSE IF data.type \notin ActionTypes THEN "ValueError"
  ELSE IF /\ data.type # "system"
          /\ ~(DOMAIN get(data, "parameters", <<>>) \subseteq
                 FieldsOf(parameters_class_of(data.type)))
  THEN "TypeError"
  ELSE IF "id" \notin DOMAIN data \/ "subtype" \notin DOMAIN data THEN "KeyError"
  ELSE ""

\* as from_dict_parameters, with the parameters left at their defaults
from_dict_parameters_dropped(class, params_data) == ParameterDefaults

\* the parameters object from_dict builds: class(**params_data), and
\* ActionParameters() for a type that has no class of its own
from_dict_parameters(class, params_data) ==
  [field \in ParameterFields |->
     IF field \in FieldsOf(class) /\ field \in DOMAIN params_data
     THEN params_data[field]
     ELSE ParameterDefaults[field]]

\* Action.from_dict on a dictionary it accepts
from_dict(data) ==
  LET class == parameters_class_of(data.type)
      p == from_dict_parameters(class, get(data, "parameters", <<>>)) IN
  [id |-> data.id, type |-> data.type, subtype |-> data.subtype,
   parameters_class |-> class,
   enabled |-> get(data, "enabled", TRUE),
   requires_confirmation |-> get(data, "requires_confirmation", FALSE),
   x |-> p.x, y |-> p.y, from_x |-> p.from_x, from_y |-> p.from_y,
   to_x |-> p.to_x, to_y |-> p.to_y, button |-> p.button,
   keys |-> p.keys, modifiers |-> p.modifiers, text_len |-> p.text_len,
   path |-> p.path, sequence |-> p.sequence, loop_count |-> p.loop_count]

\* ------------------------------------------------------------- the state
Caller == 0
Workers == 1..max_workers
Threads == {Caller} \cup Workers

VARIABLES
  config,              \* the configuration and the host the engine is built on
  is_running,          \* "running", "shutting_down" or "shut_down"
  input_library,       \* 'pynput' or 'pyautogui', selected at construction
  emergency_stop,      \* self.emergency_stop
  execution_history,   \* self.execution_history
  on_action_executed,  \* the callable assigned: "None", "returns" or "raises"
  on_action_failed,
  pool,                \* work submitted to self.executor and not yet taken
  active_futures,      \* self.active_futures
  futures,             \* the handle execute_action gave for each call
  stack,               \* per thread: its nested _execute_action_sync calls
  job,                 \* per thread: the future its outermost call resolves
  backend_calls,       \* per call of execute_action: backend routines invoked
  built,               \* per thread: results built for its outermost call
  recorded,            \* every entry ever appended to the history, in order
  mappings,            \* per gesture mapping: use_count and the futures it got
  query                \* the last call of a function of the validator

vars == <<query, mappings, config, is_running, input_library, emergency_stop, execution_history, on_action_executed,
          on_action_failed, pool, active_futures, futures, stack, job,
          backend_calls, built, recorded>>

\* message texts, by the format string that builds them and its numbers
Msg(kind, n, m) == [kind |-> kind, n |-> n, m |-> m]

\* ----------------------------------------------------------- the validator
\* how a call of a validator function ends: it returns (is_valid,
\* error_message), or an exception leaves it
Returned(is_valid, error_message) ==
  [raised |-> "", is_valid |-> is_valid, error_message |-> error_message]
Raised(exception) ==
  [raised |-> exception, is_valid |-> FALSE, error_message |-> Msg("", 0, 0)]
Valid == Returned(TRUE, Msg("", 0, 0))

\* the range check of one coordinate
out_of_range(c) == ~IsNone(c) /\ (Val(c) < 0 \/ Val(c) > MaxCoord)

validate_mouse_action(a) ==
  IF /\ a.subtype \in {"click", "move_to", "drag"}
     /\ hasattr(a, "x") /\ hasattr(a, "y")
     /\ out_of_range(a.x)
  THEN Returned(FALSE, Msg("Mouse X coordinate out of reasonable range", 0, 0))
  ELSE IF /\ a.subtype \in {"click", "move_to", "drag"}
          /\ hasattr(a, "x") /\ hasattr(a, "y")
          /\ out_of_range(a.y)
  THEN Returned(FALSE, Msg("Mouse Y coordinate out of reasonable range", 0, 0))
  ELSE IF hasattr(a, "button") /\ a.button \notin {"left", "right", "middle"}
  THEN Returned(FALSE, Msg("Invalid mouse button: {button}", 0, 0))
  ELSE Valid

validate_keyboard_action(a) ==
  IF /\ a.subtype \in {"key_press", "key_combination"}
     /\ hasattr(a, "keys")
     /\ \E k \in 1..Len(config.dangerous_keys) :
          Contains(lower(Chars(config.dangerous_keys[k])), lower(ReprList(a.keys)))
  THEN Returned(FALSE, Msg("Dangerous key combination detected: {dangerous_key}", 0, 0))
  ELSE IF a.subtype = "type_text" /\ hasattr(a, "text_len") /\ a.text_len > MaxTextLen
  THEN Returned(FALSE, Msg("Text too long (max 1000 characters)", 0, 0))
  ELSE Valid

\* as path_blocked, the entries compared with the path as they are written
path_blocked_case_sensitive(path, blocked) ==
  \E k \in 1..Len(blocked) : Contains(Chars(blocked[k]), Chars(path))

\* blocked_path.lower() in params.path.lower(), for some blocked path
path_blocked(path, blocked) ==
  \E k \in 1..Len(blocked) : Contains(lower(Chars(blocked[k])), lower(Chars(path)))

\* any(allowed_path.lower() in params.path.lower() for ...)
path_allowed(path, allowed) ==
  \E k \in 1..Len(allowed) : Contains(lower(Chars(allowed[k])), lower(Chars(path)))

validate_application_action(a) ==
  IF a.subtype # "launch" THEN Valid
  ELSE IF ~hasattr(a, "path") \/ a.path = ""
  THEN Returned(FALSE, Msg("Application path is required for launch action", 0, 0))
  ELSE IF path_blocked(a.path, config.blocked_paths)
  THEN Returned(FALSE, Msg("Application path is blocked: {blocked_path}", 0, 0))
  ELSE IF config.allowed_paths # <<>> /\ ~path_allowed(a.path, config.allowed_paths)
  THEN Returned(FALSE, Msg("Application path is not in allowed list", 0, 0))
  ELSE Valid

\* as invalid_at, counting the positions from 0
invalid_at_from_zero(position) ==
  Returned(FALSE, Msg("Invalid action at position {i+1}: {error}", position - 1, 0))

\* the rejection of a macro for the sub-action at a position, counted from 1
invalid_at(position) ==
  Returned(FALSE, Msg("Invalid action at position {i+1}: {error}", position, 0))

\* as invalid_data_at, without the try block: the exception leaves
invalid_data_raises(exception, position) == Raised(exception)

\* the except branch of the loop of _validate_macro_action
invalid_data_at(exception, position) ==
  Returned(FALSE, Msg("Invalid action data at position {i+1}: {e}", position, 0))

RECURSIVE validate_action(_), validate_sequence(_, _)

\* the loop of _validate_macro_action from a position of the sequence on
validate_sequence(a, position) ==
  IF position > Len(a.sequence) THEN Valid
  ELSE LET data == action_data(a.sequence[position]) IN
       IF from_dict_raises(data) # ""
       THEN invalid_data_at(from_dict_raises(data), position)
       ELSE LET sub == validate_action(from_dict(data)) IN
            IF sub.raised # "" THEN invalid_data_at(sub.raised, position)
            ELSE IF ~sub.is_valid THEN invalid_at(position)
            ELSE validate_sequence(a, position + 1)

validate_macro_action(a) ==
  IF ~hasattr(a, "sequence") \/ a.sequence = <<>> THEN Valid
  ELSE IF Len(a.sequence) > max_sequence_length
  THEN Returned(FALSE, Msg("Macro sequence too long (max {max_length} actions)",
                           max_sequence_length, 0))
  ELSE validate_sequence(a, 1)

validate_system_action(a) ==
  IF ~TypeEnabled("system")
  THEN Returned(FALSE, Msg("System actions are disabled for security", 0, 0))
  ELSE Valid

validate_action(a) ==
  IF ~TypeEnabled(a.type)
  THEN Returned(FALSE, Msg("Action type '{type}' is disabled", 0, 0))
  ELSE IF a.subtype \notin AllowedActions(a.type)
  THEN Returned(FALSE, Msg("Action subtype '{subtype}' is not allowed for type '{type}'", 0, 0))
  ELSE CASE a.type = "mouse" -> validate_mouse_action(a)
         [] a.type = "keyboard" -> validate_keyboard_action(a)
         [] a.type = "application" -> validate_application_action(a)
         [] a.type = "macro" -> validate_macro_action(a)
         [] a.type = "system" -> validate_system_action(a)
         [] OTHER -> Valid

\* is_valid of the pair validate_action returns
is_valid(a) == validate_action(a).is_valid

\* as requires_confirmation, without the flag of the action itself
requires_confirmation_policy_only(a) ==
  \/ config.confirmation_required[a.type]
  \/ a.type = "application" /\ config.require_confirmation.application_launch
  \/ a.type = "system" /\ config.require_confirmation.system_commands

\* ActionValidator.requires_confirmation
requires_confirmation(a) ==
  IF config.confirmation_required[a.type] THEN TRUE
  ELSE IF a.requires_confirmation THEN TRUE
  ELSE IF a.type = "application" /\ config.require_confirmation.application_launch THEN TRUE
  ELSE IF a.type = "system" /\ config.require_confirmation.system_commands THEN TRUE
  ELSE FALSE

\* ActionExecutionResult(success, message, action_id, error_code)
ActionExecutionResult(success, message, action_id, error_code, now) ==
  [success |-> success, message |-> message, action_id |-> action_id,
   error_code |-> error_code, timestamp |-> now]
NoResult == ActionExecutionResult(FALSE, Msg("", 0, 0), 0, "", <<0, 0>>)

\* datetime.now() of a result: a stamp no other result carries, the call
\* of execute_action it belongs to and its rank among that call's results
Stamp(t) == <<job[t], built[t] + 1>>

\* one call of _execute_action_sync in progress
NewFrame(id) ==
  [action |-> id, pc |-> "dispatch", result |-> NoResult, in_except |-> FALSE,
   backend |-> "",
   loop |-> 0, i |-> 0, executed_actions |-> 0, dispatched |-> <<>>,
   sub |-> NoResult, slice |-> <<>>,
   n_executed |-> 0, n_failed |-> 0, appended |-> <<>>]

Top(t) == stack[t][Len(stack[t])]
SetTop(t, f) == [stack EXCEPT ![t] = [@ EXCEPT ![Len(@)] = f]]
Running(t, pc) == stack[t] # <<>> /\ Top(t).pc = pc

\* __init__ assigns self.failsafe_enabled (line 84) after it has called
\* _initialize_libraries (line 71)
failsafe_enabled_assigned == FALSE

\* the pyautogui branches read self.failsafe_enabled to configure the library;
\* the read of an attribute not yet assigned raises AttributeError
configure_pyautogui ==
  IF failsafe_enabled_assigned THEN "pyautogui" ELSE "AttributeError"

\* _initialize_libraries: the preferred library when it is installed, else
\* whichever is; "RuntimeError" on a host that has neither. An exception
\* leaves __init__: no engine is constructed
initialize_libraries(library_preference, pynput_available, pyautogui_available) ==
  IF library_preference = "pynput" /\ pynput_available THEN "pynput"
  ELSE IF library_preference = "pyautogui" /\ pyautogui_available THEN configure_pyautogui
  ELSE IF pynput_available THEN "pynput"
  ELSE IF pyautogui_available THEN configure_pyautogui
  ELSE "RuntimeError"

\* the gesture mappings of the ActionMappingManager: the action of each
\* and its enabled flag
Mapping(action, enabled) == [action |-> action, enabled |-> enabled]
MappingTable ==
  << Mapping(1, TRUE), Mapping(2, TRUE), Mapping(18, TRUE), Mapping(1, FALSE),
     Mapping(17, TRUE) >>
MappingIds == 1..Len(MappingTable)

\* an entry of self.mappings: a GestureActionMapping under the id uuid4 gave
\* it, ids being numbered in the order they were given, which is the order
\* of the dictionary; gestures are named by number, mapping m of the table
\* being the one of gesture m
GestureActionMapping(gesture_name, gesture_type, action, enabled) ==
  [stored |-> "stored", gesture_name |-> gesture_name, gesture_type |-> gesture_type,
   action |-> action, enabled |-> enabled, use_count |-> 0, futures |-> <<>>]
\* an id not given yet (stored = "free") or deleted (stored = "removed")
NoMapping(stored) ==
  [stored |-> stored, gesture_name |-> 0, gesture_type |-> "", action |-> 0,
   enabled |-> FALSE, use_count |-> 0, futures |-> <<>>]
\* the profile main.py starts with, and a new profile
LoadedProfile ==
  [m \in MappingIds |->
     GestureActionMapping(m, "predefined", MappingTable[m].action, MappingTable[m].enabled)]
EmptyProfile == [m \in MappingIds |-> NoMapping("free")]

\* a call of a function of the validator: the function, the action it was
\* given and what it gave back
Query(function, id, result) == [function |-> function, action |-> id, result |-> result]
NoQuery == Query("", 0, Valid)

\* __init__ ran to its end: there is an engine to call
constructed == input_library \in {"pynput", "pyautogui"}

\* the configuration the engine reads and the libraries of the host
Config(library_preference, pynput_available, pyautogui_available, deny) ==
  [input_library |-> library_preference, pynput_available |-> pynput_available,
   pyautogui_available |-> pyautogui_available, dangerous_keys |-> deny,
   blocked_paths |-> blocked_paths, allowed_paths |-> allowed_paths,
   confirmation_required |-> confirmation_required,
   require_confirmation |-> require_confirmation]

\* config.py as shipped, on a host with both libraries installed
DefaultConfig == Config("pynput", TRUE, TRUE, dangerous_keys)

\* ActionExecutor.__init__ under the configuration c, next to a mapping
\* manager that holds the profile
ConstructedWith(c, profile) ==
  /\ config = c
  /\ is_running = "running"
  /\ input_library = initialize_libraries(c.input_library, c.pynput_available,
                                          c.pyautogui_available)
  /\ emergency_stop = FALSE
  /\ execution_history = <<>>
  /\ on_action_executed = "None"
  /\ on_action_failed = "None"
  /\ pool = <<>>
  /\ active_futures = <<>>
  /\ futures = <<>>
  /\ stack = [t \in Threads |-> <<>>]
  /\ job = [t \in Threads |-> 0]
  /\ backend_calls = <<>>
  /\ recorded = <<>>
  /\ built = [t \in Threads |-> 0]
  /\ mappings = profile
  /\ query = NoQuery

Constructed(c) == ConstructedWith(c, LoadedProfile)

\* the engine as main.py constructs it
Init == Constructed(DefaultConfig)

\* ------------------------------------------------- the backend routines
\* what a backend routine does when it is invoked
BackendBehaviours == {"ok", "raises", "FileNotFoundError", "PermissionError"}

\* the ways the routine of an action can end: it returns or raises; Popen
\* raises FileNotFoundError and PermissionError apart from the rest
behaviours_of(a) ==
  IF a.type = "application" /\ a.subtype = "launch" THEN BackendBehaviours
  ELSE {"ok", "raises"}

\* (success, message) of a dispatch routine, and whether it reached the backend
Outcome(success, message, invoked) ==
  [success |-> success, message |-> message, invoked |-> invoked]

execute_mouse_action_pynput(a, bk) ==
  CASE a.subtype = "click" ->
         IF bk = "ok" THEN Outcome(TRUE, Msg("Mouse {button} click executed", 0, 0), TRUE)
         ELSE Outcome(FALSE, Msg("Mouse action failed: {e}", 0, 0), TRUE)
    [] a.subtype = "move_to" ->
         IF IsNone(a.x) \/ IsNone(a.y)
         THEN Outcome(FALSE, Msg("Mouse move requires x and y coordinates", 0, 0), FALSE)
         ELSE IF bk = "ok" THEN Outcome(TRUE, Msg("Mouse moved to ({x}, {y})", 0, 0), TRUE)
         ELSE Outcome(FALSE, Msg("Mouse action failed: {e}", 0, 0), TRUE)
    [] a.subtype = "drag" ->
         IF (IsNone(a.to_x) /\ IsNone(a.x)) \/ (IsNone(a.to_y) /\ IsNone(a.y))
         THEN Outcome(FALSE, Msg("Drag requires destination X and Y", 0, 0), FALSE)
         ELSE IF bk = "ok" THEN Outcome(TRUE, Msg("Mouse dragged to ({end_x}, {end_y})", 0, 0), TRUE)
         ELSE Outcome(FALSE, Msg("Drag failed: {e}", 0, 0), TRUE)
    [] a.subtype = "scroll" ->
         IF bk = "ok" THEN Outcome(TRUE, Msg("Mouse scrolled", 0, 0), TRUE)
         ELSE Outcome(FALSE, Msg("Mouse action failed: {e}", 0, 0), TRUE)
    [] OTHER -> Outcome(FALSE, Msg("Unsupported mouse action: {subtype}", 0, 0), FALSE)

execute_mouse_action_pyautogui(a, bk) ==
  CASE a.subtype \in {"click", "move_to", "scroll"} ->
         IF bk = "ok"
         THEN Outcome(TRUE, Msg(CASE a.subtype = "click" -> "Mouse {button} click executed"
                                  [] a.subtype = "move_to" -> "Mouse moved to ({x}, {y})"
                                  [] OTHER -> "Mouse scrolled", 0, 0), TRUE)
         ELSE Outcome(FALSE, Msg("Mouse action failed: {e}", 0, 0), TRUE)
    [] a.subtype = "drag" ->
         IF (IsNone(a.to_x) /\ IsNone(a.x)) \/ (IsNone(a.to_y) /\ IsNone(a.y))
         THEN Outcome(FALSE, Msg("Drag requires destination X and Y", 0, 0), FALSE)
         ELSE IF bk = "ok" THEN Outcome(TRUE, Msg("Mouse dragged to ({end_x}, {end_y})", 0, 0), TRUE)
         ELSE Outcome(FALSE, Msg("Mouse action failed: {e}", 0, 0), TRUE)
    [] OTHER -> Outcome(FALSE, Msg("Unsupported mouse action: {subtype}", 0, 0), FALSE)

\* _execute_mouse_action: the library's routine inside try/except Exception
execute_mouse_action(a, lib, bk) ==
  IF lib = "pynput" THEN execute_mouse_action_pynput(a, bk)
  ELSE IF lib = "pyautogui" THEN execute_mouse_action_pyautogui(a, bk)
  ELSE Outcome(FALSE, Msg("No input library available", 0, 0), FALSE)

\* _execute_keyboard_action: both libraries press, combine or type
execute_keyboard_action(a, lib, bk) ==
  IF lib \notin {"pynput", "pyautogui"}
  THEN Outcome(FALSE, Msg("No input library available", 0, 0), FALSE)
  ELSE IF a.subtype \notin {"key_press", "key_combination", "type_text"}
  THEN Outcome(FALSE, Msg("Unsupported keyboard action: {subtype}", 0, 0), FALSE)
  ELSE IF bk = "ok"
  THEN Outcome(TRUE, Msg(CASE a.subtype = "key_press" -> "Key press executed: {keys}"
                           [] a.subtype = "key_combination" -> "Key combination executed: {keys}"
                           [] OTHER -> "Text typed: {n} characters", 0, 0), TRUE)
  ELSE Outcome(FALSE, Msg("Keyboard action failed: {e}", 0, 0), TRUE)

launch_application(a, bk) ==
  IF a.path = "" THEN Outcome(FALSE, Msg("Application path is required", 0, 0), FALSE)
  ELSE CASE bk = "ok" -> Outcome(TRUE, Msg("Application launched: {path}", 0, 0), TRUE)
         [] bk = "FileNotFoundError" -> Outcome(FALSE, Msg("Application not found: {path}", 0, 0), TRUE)
         [] bk = "PermissionError" -> Outcome(FALSE, Msg("Permission denied: {path}", 0, 0), TRUE)
         [] OTHER -> Outcome(FALSE, Msg("Failed to launch application: {e}", 0, 0), TRUE)

\* as execute_application_action, the subtypes that are not implemented
\* passing for done
execute_application_action_silent(a, bk) ==
  CASE a.subtype = "launch" -> launch_application(a, bk)
    [] OTHER -> Outcome(TRUE, Msg("Application {subtype} executed", 0, 0), FALSE)

execute_application_action(a, bk) ==
  CASE a.subtype = "launch" -> launch_application(a, bk)
    [] a.subtype = "close" -> Outcome(FALSE, Msg("Application close not implemented yet", 0, 0), FALSE)
    [] a.subtype = "focus" -> Outcome(FALSE, Msg("Application focus not implemented yet", 0, 0), FALSE)
    [] OTHER -> Outcome(FALSE, Msg("Unsupported application action: {subtype}", 0, 0), FALSE)

\* the type branch of _execute_action_sync for the types that are not macros
execute_primitive(a, lib, bk) ==
  CASE a.type = "mouse" -> execute_mouse_action(a, lib, bk)
    [] a.type = "keyboard" -> execute_keyboard_action(a, lib, bk)
    [] a.type = "application" -> execute_application_action(a, bk)
    [] OTHER -> Outcome(FALSE, Msg("Unsupported action type: {type}", 0, 0), FALSE)

\* --------------------------------------------------------- execute_action
\* as short_circuit, with the emergency-stop check ahead of the validation
short_circuit_stop_first(a, stop) ==
  IF stop THEN "EMERGENCY_STOP"
  ELSE IF ~is_valid(a) THEN "VALIDATION_ERROR"
  ELSE ""

\* as short_circuit, without the emergency-stop check
short_circuit_no_stop(a, stop) ==
  IF ~is_valid(a) THEN "VALIDATION_ERROR" ELSE ""

\* as short_circuit, for an engine that turns away an action that requires
\* confirmation
short_circuit_unless_confirmed(a, stop) ==
  IF ~is_valid(a) \/ requires_confirmation(a) THEN "VALIDATION_ERROR"
  ELSE IF stop THEN "EMERGENCY_STOP"
  ELSE ""

\* the checks of execute_action before anything is dispatched: the error
\* code of the result it returns at once, "" when it goes on to dispatch
short_circuit(a, stop) ==
  IF ~is_valid(a) THEN "VALIDATION_ERROR"
  ELSE IF stop THEN "EMERGENCY_STOP"
  ELSE ""

short_circuit_message(code) ==
  IF code = "VALIDATION_ERROR" THEN Msg("Validation failed: {error_message}", 0, 0)
  ELSE Msg("Emergency stop activated", 0, 0)

\* a Future: pending, resolved with a result, or holding an exception;
\* with the arguments of the call, the flag as the call found it and
\* whether the call came after shutdown
Future(id, async, state, result) ==
  [action |-> id, async |-> async, stopped |-> emergency_stop,
   shut |-> is_running = "shut_down", state |-> state, result |-> result]

\* what execute_action does with an action: "return" the completed future of
\* a failed result, "submit" to the pool, or "inline" dispatch
execute_action_path(a, stop, async) ==
  IF short_circuit(a, stop) # "" THEN "return"
  ELSE IF async THEN "submit"
  ELSE "inline"

\* as ExecuteShortCircuit, with the failed result recorded in the history
ExecuteShortCircuitRecorded(id, async) ==
  LET code == short_circuit(ActionTable[id], emergency_stop)
      result == ActionExecutionResult(FALSE, short_circuit_message(code), id, code,
                                      <<Len(futures) + 1, 0>>) IN
  /\ constructed /\ Len(futures) < MaxCalls
  /\ stack[Caller] = <<>> /\ is_running # "shutting_down"
  /\ execute_action_path(ActionTable[id], emergency_stop, async) = "return"
  /\ futures' = Append(futures, Future(id, async, "done", result))
  /\ backend_calls' = Append(backend_calls, 0)
  /\ execution_history' = Append(execution_history,
        [action |-> id, success |-> FALSE, message |-> result.message,
         timestamp |-> result.timestamp, error_code |-> code])
  /\ UNCHANGED <<query, mappings, config, is_running, input_library, emergency_stop, on_action_executed,
                 on_action_failed, pool, active_futures, stack, job, built, recorded>>

\* _create_completed_future on the result of a rejected or stopped action
return_completed(id, async) ==
  LET code == short_circuit(ActionTable[id], emergency_stop) IN
  /\ constructed /\ Len(futures) < MaxCalls
  /\ stack[Caller] = <<>> /\ is_running # "shutting_down"
  /\ execute_action_path(ActionTable[id], emergency_stop, async) = "return"
  /\ futures' = Append(futures,
       Future(id, async, "done",
              ActionExecutionResult(FALSE, short_circuit_message(code), id, code,
                                    <<Len(futures) + 1, 0>>)))
  /\ backend_calls' = Append(backend_calls, 0)
  /\ UNCHANGED <<query, config, is_running, input_library, emergency_stop, execution_history, on_action_executed,
                 on_action_failed, pool, active_futures, stack, job, built, recorded>>

\* execute_action called on its own, its call ending at once
ExecuteShortCircuit(id, async) ==
  /\ return_completed(id, async)
  /\ UNCHANGED mappings

\* self.executor.submit(self._execute_action_sync, action)
submit(id) ==
  /\ constructed /\ Len(futures) < MaxCalls
  /\ stack[Caller] = <<>> /\ is_running = "running"
  /\ execute_action_path(ActionTable[id], emergency_stop, TRUE) = "submit"
  /\ futures' = Append(futures, Future(id, TRUE, "pending", NoResult))
  /\ pool' = Append(pool, [action |-> id, future |-> Len(futures) + 1])
  /\ active_futures' = Append(active_futures, Len(futures) + 1)
  /\ backend_calls' = Append(backend_calls, 0)
  /\ UNCHANGED <<query, config, is_running, input_library, emergency_stop, execution_history, on_action_executed,
                 on_action_failed, stack, job, built, recorded>>

\* execute_action called on its own, in asynchronous mode
ExecuteAsync(id) ==
  /\ submit(id)
  /\ UNCHANGED mappings

\* ------------------------------------------------- execute_gesture_action
\* ActionMappingManager.record_action_usage, and the future that the call
\* of execute_action which follows it returns for the mapping
record_action_usage(m) ==
  [mappings EXCEPT ![m].use_count = @ + 1,
                   ![m].futures = Append(@, Len(futures) + 1)]

\* get_mapping_for_gesture: the first enabled mapping of the gesture in the
\* order of the dictionary, 0 for None
get_mapping_for_gesture(gesture_name, gesture_type) ==
  LET found == {m \in MappingIds :
                  /\ mappings[m].stored = "stored"
                  /\ mappings[m].gesture_name = gesture_name
                  /\ mappings[m].gesture_type = gesture_type
                  /\ mappings[m].enabled} IN
  IF found = {} THEN 0 ELSE CHOOSE m \in found : \A n \in found : m <= n

\* the gesture of mapping m was recognised and the lookup returned m
Recognised(m) ==
  /\ mappings[m].stored = "stored"
  /\ get_mapping_for_gesture(mappings[m].gesture_name, mappings[m].gesture_type) = m

\* execute_gesture_action on a gesture that has an enabled mapping: the
\* usage is recorded, then the action goes to execute_action in its default,
\* asynchronous mode; here the call ends at once
GestureShortCircuit(m) ==
  /\ Recognised(m)
  /\ mappings' = record_action_usage(m)
  /\ return_completed(mappings[m].action, TRUE)

\* the same, the action being submitted to the pool. A gesture whose mapping
\* is disabled has no mapping for get_mapping_for_gesture: nothing happens
GestureSubmit(m) ==
  /\ Recognised(m)
  /\ mappings' = record_action_usage(m)
  /\ submit(mappings[m].action)

\* ------------------------------------------------ the mapping manager
\* the answer of the last call of add_mapping, update_mapping or
\* remove_mapping: the gesture add_mapping was given, the mapping its lookup
\* found, and the value returned (an id or 0 for None; TRUE or FALSE)
Answer(gesture_name, existing, returned) ==
  [gesture_name |-> gesture_name, existing |-> existing, returned |-> returned]

\* add_mapping(gesture_name, 'predefined', action): nothing is added for an
\* action the validator rejects or a gesture the lookup finds a mapping for
\* (the file save_current_profile writes is not part of the state)
AddMapping(gesture_name, id) ==
  LET existing == get_mapping_for_gesture(gesture_name, "predefined")
      given == {m \in MappingIds : mappings[m].stored # "free"}
      mapping_id == Cardinality(given) + 1 IN
  /\ Cardinality(given) < MaxMappings
  /\ IF ~is_valid(ActionTable[id]) \/ existing # 0
     THEN /\ mappings' = mappings
          /\ query' = Query("add_mapping", id, Answer(gesture_name, existing, 0))
     ELSE /\ mappings' = [mappings EXCEPT ![mapping_id] =
                 GestureActionMapping(gesture_name, "predefined", id, TRUE)]
          /\ query' = Query("add_mapping", id, Answer(gesture_name, existing, mapping_id))
  /\ UNCHANGED <<config, is_running, input_library, emergency_stop, execution_history,
                 on_action_executed, on_action_failed, pool, active_futures, futures,
                 stack, job, backend_calls, built, recorded>>

\* remove_mapping(mapping_id)
RemoveMapping(m) ==
  /\ IF mappings[m].stored # "stored"
     THEN /\ mappings' = mappings
          /\ query' = Query("remove_mapping", 0, Answer(0, m, FALSE))
     ELSE /\ mappings' = [mappings EXCEPT ![m] = NoMapping("removed")]
          /\ query' = Query("remove_mapping", 0, Answer(0, m, TRUE))
  /\ UNCHANGED <<config, is_running, input_library, emergency_stop, execution_history,
                 on_action_executed, on_action_failed, pool, active_futures, futures,
                 stack, job, backend_calls, built, recorded>>

\* update_mapping(mapping_id, **kwargs): setattr for every keyword that
\* names a field of the mapping
UpdateMapping(m, kwargs) ==
  /\ IF mappings[m].stored # "stored"
     THEN /\ mappings' = mappings
          /\ query' = Query("update_mapping", 0, Answer(0, m, FALSE))
     ELSE /\ mappings' = [mappings EXCEPT ![m] =
                 [field \in DOMAIN @ |->
                    IF field \in DOMAIN kwargs THEN kwargs[field] ELSE @[field]]]
          /\ query' = Query("update_mapping", 0, Answer(0, m, TRUE))
  /\ UNCHANGED <<config, is_running, input_library, emergency_stop, execution_history,
                 on_action_executed, on_action_failed, pool, active_futures, futures,
                 stack, job, backend_calls, built, recorded>>

\* ------------------------------------------- the validator, as it is called
\* validate_action(action), as execute_action, the mapping manager and the
\* mapping dialog call it
ValidateAction(id) ==
  /\ query' = Query("validate_action", id, validate_action(ActionTable[id]))
  /\ UNCHANGED <<mappings, config, is_running, input_library, emergency_stop,
                 execution_history, on_action_executed, on_action_failed, pool,
                 active_futures, futures, stack, job, backend_calls, built, recorded>>

\* validate_action on the action read back from its stored dictionary: the
\* action of a mapping loaded from its file, when it is executed
ValidateStored(id) ==
  /\ query' = Query("validate_stored", id,
                    IF from_dict_raises(to_dict(ActionTable[id])) # ""
                    THEN Raised(from_dict_raises(to_dict(ActionTable[id])))
                    ELSE validate_action(from_dict(to_dict(ActionTable[id]))))
  /\ UNCHANGED <<mappings, config, is_running, input_library, emergency_stop,
                 execution_history, on_action_executed, on_action_failed, pool,
                 active_futures, futures, stack, job, backend_calls, built, recorded>>

\* requires_confirmation(action), as the mapping dialog calls it
RequiresConfirmation(id) ==
  /\ query' = Query("requires_confirmation", id,
                    Returned(requires_confirmation(ActionTable[id]), Msg("", 0, 0)))
  /\ UNCHANGED <<mappings, config, is_running, input_library, emergency_stop,
                 execution_history, on_action_executed, on_action_failed, pool,
                 active_futures, futures, stack, job, backend_calls, built, recorded>>

\* as ExecuteSync, the dispatch being handed to the pool and the handle
\* returned before it ran
ExecuteSyncDeferred(id) ==
  /\ constructed /\ Len(futures) < MaxCalls
  /\ stack[Caller] = <<>> /\ is_running # "shutting_down"
  /\ execute_action_path(ActionTable[id], emergency_stop, FALSE) = "inline"
  /\ futures' = Append(futures, Future(id, FALSE, "pending", NoResult))
  /\ pool' = Append(pool, [action |-> id, future |-> Len(futures) + 1])
  /\ backend_calls' = Append(backend_calls, 0)
  /\ UNCHANGED <<query, mappings, config, is_running, input_library, emergency_stop, execution_history, on_action_executed,
                 on_action_failed, active_futures, stack, job, built, recorded>>

\* result = self._execute_action_sync(action), on the caller's thread
ExecuteSync(id) ==
  /\ constructed /\ Len(futures) < MaxCalls
  /\ stack[Caller] = <<>> /\ is_running # "shutting_down"
  /\ execute_action_path(ActionTable[id], emergency_stop, FALSE) = "inline"
  /\ futures' = Append(futures, Future(id, FALSE, "pending", NoResult))
  /\ stack' = [stack EXCEPT ![Caller] = <<NewFrame(id)>>]
  /\ job' = [job EXCEPT ![Caller] = Len(futures) + 1]
  /\ built' = [built EXCEPT ![Caller] = 0]
  /\ backend_calls' = Append(backend_calls, 0)
  /\ UNCHANGED <<query, mappings, config, is_running, input_library, emergency_stop, execution_history, on_action_executed,
                 on_action_failed, pool, active_futures, recorded>>

\* as WorkerTake, for a pool whose shutdown cancels the work that waits
WorkerTakeWhileRunning(w) ==
  /\ is_running = "running"
  /\ w \in Workers
  /\ stack[w] = <<>>
  /\ \A v \in Workers : v < w => stack[v] # <<>>
  /\ pool # <<>>
  /\ stack' = [stack EXCEPT ![w] = <<NewFrame(Head(pool).action)>>]
  /\ job' = [job EXCEPT ![w] = Head(pool).future]
  /\ built' = [built EXCEPT ![w] = 0]
  /\ pool' = Tail(pool)
  /\ UNCHANGED <<query, mappings, config, is_running, input_library, emergency_stop, execution_history, on_action_executed,
                 on_action_failed, active_futures, futures, backend_calls, recorded>>

\* a worker of the pool takes the oldest submitted work item; the workers
\* are interchangeable, so the idle worker of lowest number stands for any
WorkerTake(w) ==
  /\ w \in Workers
  /\ stack[w] = <<>>
  /\ \A v \in Workers : v < w => stack[v] # <<>>
  /\ pool # <<>>
  /\ stack' = [stack EXCEPT ![w] = <<NewFrame(Head(pool).action)>>]
  /\ job' = [job EXCEPT ![w] = Head(pool).future]
  /\ built' = [built EXCEPT ![w] = 0]
  /\ pool' = Tail(pool)
  /\ UNCHANGED <<query, mappings, config, is_running, input_library, emergency_stop, execution_history, on_action_executed,
                 on_action_failed, active_futures, futures, backend_calls, recorded>>

\* as emergency_stop_all, discarding the work that waits in the pool
emergency_stop_all_drops_pending ==
  /\ emergency_stop' = TRUE
  /\ pool' = <<>>
  /\ UNCHANGED <<query, mappings, config, is_running, input_library, execution_history, on_action_executed,
                 on_action_failed, active_futures, futures, stack, job, backend_calls,
                 built, recorded>>

emergency_stop_all ==
  /\ emergency_stop' = TRUE
  /\ UNCHANGED <<query, mappings, config, is_running, input_library, execution_history, on_action_executed, on_action_failed,
                 pool, active_futures, futures, stack, job, backend_calls, built, recorded>>

resume_execution ==
  /\ emergency_stop' = FALSE
  /\ UNCHANGED <<query, mappings, config, is_running, input_library, execution_history, on_action_executed, on_action_failed,
                 pool, active_futures, futures, stack, job, backend_calls, built, recorded>>

\* the owner assigns the notification callbacks after construction
\* (main.py assigns both, before any action is executed); a callable
\* either returns or raises when it is called
CallbackBehaviours == {"returns", "raises"}
SetCallbacks(ex, fl) ==
  /\ on_action_executed = "None" /\ on_action_failed = "None"
  /\ futures = <<>>
  /\ ex \in CallbackBehaviours /\ fl \in CallbackBehaviours
  /\ on_action_executed' = ex
  /\ on_action_failed' = fl
  /\ UNCHANGED <<query, mappings, config, is_running, input_library, emergency_stop, execution_history, pool, active_futures,
                 futures, stack, job, backend_calls, built, recorded>>

\* ----------------------------------------------------------------- shutdown
\* shutdown up to executor.shutdown(wait=True): the flag of the background
\* thread is cleared and the pool takes no more submissions; the caller
\* waits inside the call
Shutdown ==
  /\ is_running = "running"
  /\ stack[Caller] = <<>>
  /\ is_running' = "shutting_down"
  /\ UNCHANGED <<query, mappings, config, input_library, emergency_stop, execution_history,
                 on_action_executed, on_action_failed, pool, active_futures, futures,
                 stack, job, backend_calls, built, recorded>>

\* as pool_drained, for a shutdown that does not wait for the workers
pool_drained_no_wait == TRUE

\* executor.shutdown(wait=True) returns once the workers have run every
\* submitted work item and ended
pool_drained == pool = <<>> /\ \A w \in Workers : stack[w] = <<>>

ShutdownReturn ==
  /\ is_running = "shutting_down"
  /\ pool_drained
  /\ is_running' = "shut_down"
  /\ UNCHANGED <<query, mappings, config, input_library, emergency_stop, execution_history,
                 on_action_executed, on_action_failed, pool, active_futures, futures,
                 stack, job, backend_calls, built, recorded>>

\* execute_action in asynchronous mode after shutdown: executor.submit raises
\* RuntimeError, which leaves execute_action; no future is returned
ExecuteAfterShutdown(id) ==
  /\ constructed /\ Len(futures) < MaxCalls
  /\ stack[Caller] = <<>> /\ is_running = "shut_down"
  /\ execute_action_path(ActionTable[id], emergency_stop, TRUE) = "submit"
  /\ futures' = Append(futures, Future(id, TRUE, "raised", NoResult))
  /\ backend_calls' = Append(backend_calls, 0)
  /\ UNCHANGED <<query, mappings, config, is_running, input_library, emergency_stop, execution_history,
                 on_action_executed, on_action_failed, pool, active_futures, stack, job,
                 built, recorded>>

\* --------------------------------------------------- _execute_action_sync
\* the result built after the type branch returned (success, message)
Finish(f, success, message, now) ==
  [f EXCEPT !.result = ActionExecutionResult(success, message, f.action, "", now),
            !.pc = "hist_append"]

\* the except branch: the result that replaces the one of the try block
ExceptResult(f, now) ==
  [f EXCEPT !.result = ActionExecutionResult(FALSE, Msg("Execution error: {e}", 0, 0),
                                             f.action, "EXECUTION_ERROR", now),
            !.in_except = TRUE,
            !.pc = "hist_append"]

\* a step that left the frame g built a result exactly when g is about to
\* record one
Built(t, g) == [built EXCEPT ![t] = IF g.pc = "hist_append" THEN @ + 1 ELSE @]

\* a mouse, keyboard or application action: its routine runs to its return
DispatchPrimitive(t, bk) ==
  /\ Running(t, "dispatch")
  /\ ActionTable[Top(t).action].type # "macro"
  /\ bk \in behaviours_of(ActionTable[Top(t).action])
  /\ LET f == Top(t)
         o == execute_primitive(ActionTable[f.action], input_library, bk) IN
     /\ stack' = SetTop(t, Finish([f EXCEPT !.backend = IF o.invoked THEN bk ELSE ""],
                                  o.success, o.message, Stamp(t)))
     /\ backend_calls' = [backend_calls EXCEPT ![job[t]] = @ + (IF o.invoked THEN 1 ELSE 0)]
  /\ built' = [built EXCEPT ![t] = @ + 1]
  /\ UNCHANGED <<query, mappings, config, is_running, input_library, emergency_stop, execution_history, on_action_executed,
                 on_action_failed, pool, active_futures, futures, job, recorded>>

\* as macro_enter, without the check of an empty sequence: the loops run
\* over nothing and the macro succeeds
macro_enter_no_empty_check(f, a, now) ==
  IF a.sequence = <<>> \/ a.loop_count < 1
  THEN Finish(f, TRUE, Msg("Macro executed successfully: {n} actions", 0, 0), now)
  ELSE [f EXCEPT !.pc = "macro_check", !.loop = 0, !.i = 0, !.executed_actions = 0]

\* _execute_macro_action up to its first loop iteration
macro_enter(f, a, now) ==
  IF a.sequence = <<>> THEN Finish(f, FALSE, Msg("Macro sequence is empty", 0, 0), now)
  ELSE IF a.loop_count < 1
  THEN Finish(f, TRUE, Msg("Macro executed successfully: {n} actions", 0, 0), now)
  ELSE [f EXCEPT !.pc = "macro_check", !.loop = 0, !.i = 0, !.executed_actions = 0]

DispatchMacro(t) ==
  /\ Running(t, "dispatch")
  /\ ActionTable[Top(t).action].type = "macro"
  /\ LET g == macro_enter(Top(t), ActionTable[Top(t).action], Stamp(t)) IN
     /\ stack' = SetTop(t, g)
     /\ built' = Built(t, g)
  /\ UNCHANGED <<query, mappings, config, is_running, input_library, emergency_stop, execution_history, on_action_executed,
                 on_action_failed, pool, active_futures, futures, job, backend_calls, recorded>>

\* the head of the macro loop when the flag is set
macro_stopped(f, now) ==
  Finish(f, FALSE,
         Msg("Macro stopped by emergency stop after {n} actions", f.executed_actions, 0), now)

\* as macro_next, walking the sequence from its end
macro_next_reversed(f, a) == a.sequence[Len(a.sequence) - f.i]

\* the sub-action the loop is at
macro_next(f, a) == a.sequence[f.i + 1]

\* as macro_check, the flag being read by the first iteration only
macro_check_first_only(f, stop, now) ==
  IF stop /\ f.executed_actions = 0 THEN macro_stopped(f, now)
  ELSE [f EXCEPT !.pc = "macro_dispatch"]

\* the head of the macro loop: the emergency-stop check
macro_check(f, stop, now) ==
  IF stop THEN macro_stopped(f, now)
  ELSE [f EXCEPT !.pc = "macro_dispatch"]

MacroCheck(t) ==
  /\ Running(t, "macro_check")
  /\ LET g == macro_check(Top(t), emergency_stop, Stamp(t)) IN
     /\ stack' = SetTop(t, g)
     /\ built' = Built(t, g)
  /\ UNCHANGED <<query, mappings, config, is_running, input_library, emergency_stop, execution_history, on_action_executed,
                 on_action_failed, pool, active_futures, futures, job, backend_calls, recorded>>

\* after the check: the sub-action is rebuilt from its dictionary and
\* dispatched by a nested call; an exception of from_dict ends the macro
MacroStep(t) ==
  /\ Running(t, "macro_dispatch")
  /\ LET f == Top(t)
         sub == macro_next(f, ActionTable[f.action])
         data == action_data(sub) IN
     IF from_dict_raises(data) # ""
     THEN /\ stack' = SetTop(t, Finish(f, FALSE, Msg("Macro execution failed: {e}", 0, 0),
                                       Stamp(t)))
          /\ built' = [built EXCEPT ![t] = @ + 1]
     ELSE /\ stack' = [stack EXCEPT ![t] =
                 Append([@ EXCEPT ![Len(@)] =
                           [f EXCEPT !.pc = "macro_wait", !.dispatched = Append(@, sub)]],
                        NewFrame(from_dict(data).id))]
          /\ built' = built
  /\ UNCHANGED <<query, mappings, config, is_running, input_library, emergency_stop, execution_history, on_action_executed,
                 on_action_failed, pool, active_futures, futures, job, backend_calls, recorded>>

\* as macro_after, without the return on a failed sub-action
macro_after_goes_on(f, a, now) ==
  LET n == f.executed_actions + 1 IN
  IF f.i + 1 < Len(a.sequence)
  THEN [f EXCEPT !.executed_actions = n, !.i = f.i + 1, !.pc = "macro_check"]
  ELSE IF f.loop + 1 < a.loop_count
  THEN [f EXCEPT !.executed_actions = n, !.i = 0, !.loop = f.loop + 1, !.pc = "macro_check"]
  ELSE Finish([f EXCEPT !.executed_actions = n], TRUE,
              Msg("Macro executed successfully: {n} actions", n, 0), now)

\* after the nested call returned: count it, stop on failure, else go on
macro_after(f, a, now) ==
  LET n == f.executed_actions + 1 IN
  IF ~f.sub.success
  THEN Finish([f EXCEPT !.executed_actions = n], FALSE,
              Msg("Macro failed at action {i+1} (loop {loop+1}): {message}", f.i + 1, f.loop + 1),
              now)
  ELSE IF f.i + 1 < Len(a.sequence)
  THEN [f EXCEPT !.executed_actions = n, !.i = f.i + 1, !.pc = "macro_check"]
  ELSE IF f.loop + 1 < a.loop_count
  THEN [f EXCEPT !.executed_actions = n, !.i = 0, !.loop = f.loop + 1, !.pc = "macro_check"]
  ELSE Finish([f EXCEPT !.executed_actions = n], TRUE,
              Msg("Macro executed successfully: {n} actions", n, 0), now)

MacroAfter(t) ==
  /\ Running(t, "macro_after")
  /\ LET g == macro_after(Top(t), ActionTable[Top(t).action], Stamp(t)) IN
     /\ stack' = SetTop(t, g)
     /\ built' = Built(t, g)
  /\ UNCHANGED <<query, mappings, config, is_running, input_library, emergency_stop, execution_history, on_action_executed,
                 on_action_failed, pool, active_futures, futures, job, backend_calls, recorded>>

\* --------------------------------------------------------- _add_to_history
history_entry(id, result) ==
  [action |-> id, success |-> result.success, message |-> result.message,
   timestamp |-> result.timestamp, error_code |-> result.error_code]

\* self.execution_history[-max_history:]
last_entries(history, max_history) ==
  IF max_history > 0 /\ Len(history) > max_history
  THEN SubSeq(history, Len(history) - max_history + 1, Len(history))
  ELSE history

\* self.execution_history.append(history_entry)
HistAppend(t) ==
  /\ Running(t, "hist_append")
  /\ LET f == Top(t)
         e == history_entry(f.action, f.result) IN
     /\ execution_history' = Append(execution_history, e)
     /\ recorded' = Append(recorded, e)
     /\ stack' = SetTop(t, [f EXCEPT !.pc = "hist_check", !.appended = Append(@, e)])
  /\ UNCHANGED <<query, mappings, config, is_running, input_library, emergency_stop, on_action_executed, on_action_failed,
                 pool, active_futures, futures, job, backend_calls, built>>

\* if len(self.execution_history) > max_history
HistCheck(t) ==
  /\ Running(t, "hist_check")
  /\ stack' = SetTop(t, [Top(t) EXCEPT !.pc =
                IF Len(execution_history) > MaxHistory THEN "hist_slice" ELSE "callback"])
  /\ UNCHANGED <<query, mappings, config, is_running, input_library, emergency_stop, execution_history, on_action_executed,
                 on_action_failed, pool, active_futures, futures, job, backend_calls, built, recorded>>

\* the right-hand side of the trim: a new list of the last entries
HistSlice(t) ==
  /\ Running(t, "hist_slice")
  /\ stack' = SetTop(t, [Top(t) EXCEPT !.pc = "hist_assign",
                                       !.slice = last_entries(execution_history, MaxHistory)])
  /\ UNCHANGED <<query, mappings, config, is_running, input_library, emergency_stop, execution_history, on_action_executed,
                 on_action_failed, pool, active_futures, futures, job, backend_calls, built, recorded>>

\* self.execution_history = <that list>
HistAssign(t) ==
  /\ Running(t, "hist_assign")
  /\ execution_history' = Top(t).slice
  /\ stack' = SetTop(t, [Top(t) EXCEPT !.pc = "callback", !.slice = <<>>])
  /\ UNCHANGED <<query, mappings, config, is_running, input_library, emergency_stop, on_action_executed, on_action_failed,
                 pool, active_futures, futures, job, backend_calls, built, recorded>>

\* ----------------------------------------------------------- the callbacks
\* which callback the code calls for a result: lines 316-319 in the try
\* block, line 339 in the except branch; "" when it calls none
callback_for(success, in_except, executed, failed) ==
  IF in_except
  THEN (IF failed # "None" THEN "on_action_failed" ELSE "")
  ELSE IF success /\ executed # "None" THEN "on_action_executed"
  ELSE IF ~success /\ failed # "None" THEN "on_action_failed"
  ELSE ""

\* the frame after the callback ran: it returned, or its exception is
\* caught by the except branch of the try block, or leaves the except branch
after_callback(f, cb, behaviour, now) ==
  LET g == [f EXCEPT !.n_executed = @ + (IF cb = "on_action_executed" THEN 1 ELSE 0),
                     !.n_failed = @ + (IF cb = "on_action_failed" THEN 1 ELSE 0)] IN
  IF cb = "" \/ behaviour # "raises" THEN [g EXCEPT !.pc = "return"]
  ELSE IF f.in_except THEN [g EXCEPT !.pc = "raise"]
  ELSE ExceptResult(g, now)

Callback(t) ==
  /\ Running(t, "callback")
  /\ LET f == Top(t)
         cb == callback_for(f.result.success, f.in_except, on_action_executed, on_action_failed)
         g == after_callback(f, cb,
                IF cb = "on_action_executed" THEN on_action_executed ELSE on_action_failed,
                Stamp(t)) IN
     /\ stack' = SetTop(t, g)
     /\ built' = Built(t, g)
  /\ UNCHANGED <<query, mappings, config, is_running, input_library, emergency_stop, execution_history, on_action_executed,
                 on_action_failed, pool, active_futures, futures, job, backend_calls, recorded>>

\* ------------------------------------------------- leaving the primitive
\* return result: to the macro that made the nested call, or into the future
Return(t) ==
  /\ Running(t, "return")
  /\ LET f == Top(t)
         n == Len(stack[t]) IN
     IF n > 1
     THEN /\ stack' = [stack EXCEPT ![t] =
                 [SubSeq(@, 1, n - 1) EXCEPT ![n - 1] =
                    [@ EXCEPT !.sub = f.result, !.pc = "macro_after"]]]
          /\ UNCHANGED <<futures, job>>
     ELSE /\ stack' = [stack EXCEPT ![t] = <<>>]
          /\ futures' = [futures EXCEPT ![job[t]] =
                 [@ EXCEPT !.state = "done", !.result = f.result]]
          /\ job' = [job EXCEPT ![t] = 0]
  /\ UNCHANGED <<query, mappings, config, is_running, input_library, emergency_stop, execution_history, on_action_executed,
                 on_action_failed, pool, active_futures, backend_calls, built, recorded>>

\* the exception of on_action_failed leaves the except branch: the macro that
\* made the nested call catches it, a top-level call passes it on
Raise(t) ==
  /\ Running(t, "raise")
  /\ LET n == Len(stack[t]) IN
     IF n > 1
     THEN /\ stack' = [stack EXCEPT ![t] =
                 [SubSeq(@, 1, n - 1) EXCEPT ![n - 1] =
                    Finish(@, FALSE, Msg("Macro execution failed: {e}", 0, 0), Stamp(t))]]
          /\ built' = [built EXCEPT ![t] = @ + 1]
          /\ UNCHANGED <<futures, job>>
     ELSE /\ stack' = [stack EXCEPT ![t] = <<>>]
          /\ futures' = [futures EXCEPT ![job[t]] = [@ EXCEPT !.state = "raised"]]
          /\ job' = [job EXCEPT ![t] = 0]
          /\ built' = built
  /\ UNCHANGED <<query, mappings, config, is_running, input_library, emergency_stop, execution_history, on_action_executed,
                 on_action_failed, pool, active_futures, backend_calls, recorded>>

\* ----------------------------------------------- reading the history
\* history[-limit:], as Python evaluates the slice: the last limit entries
\* for a positive limit, the whole list for -0, and the list without its
\* first -limit entries for a negative limit
slice_from_minus(history, limit) ==
  IF limit > 0
  THEN (IF Len(history) > limit
        THEN SubSeq(history, Len(history) - limit + 1, Len(history))
        ELSE history)
  ELSE IF limit = 0 THEN history
  ELSE SubSeq(history, 1 - limit, Len(history))

\* get_execution_history(limit): the caller keeps the list it got, here
\* with the history it was taken from
GetExecutionHistory(limit) ==
  /\ constructed
  /\ query' = Query("get_execution_history", limit,
                    [returned |-> slice_from_minus(execution_history, limit),
                     history |-> execution_history])
  /\ UNCHANGED <<mappings, config, is_running, input_library, emergency_stop,
                 execution_history, on_action_executed, on_action_failed, pool,
                 active_futures, futures, stack, job, backend_calls, built, recorded>>

\* clear_execution_history: the list is emptied in place
ClearExecutionHistory ==
  /\ constructed
  /\ execution_history # <<>>
  /\ execution_history' = <<>>
  /\ UNCHANGED <<query, mappings, config, is_running, input_library, emergency_stop,
                 on_action_executed, on_action_failed, pool, active_futures, futures,
                 stack, job, backend_calls, built, recorded>>

\* ------------------------------------------------------ the specification
\* the steps of a thread inside _execute_action_sync
Step(t) ==
  \/ \E bk \in BackendBehaviours : DispatchPrimitive(t, bk)
  \/ HistAppend(t)
  \/ HistCheck(t)
  \/ HistSlice(t)
  \/ HistAssign(t)
  \/ Callback(t)
  \/ Return(t)
  \/ Raise(t)

\* the steps of a thread inside _execute_macro_action
StepOfMacro(t) ==
  \/ DispatchMacro(t)
  \/ MacroCheck(t)
  \/ MacroStep(t)
  \/ MacroAfter(t)

\* the actions the caller submits to the engine with its workers running
Inputs == {1, 2, 8}

Next ==
  \/ \E id \in Inputs, async \in BOOLEAN : ExecuteShortCircuit(id, async)
  \/ \E id \in Inputs : ExecuteAsync(id)
  \/ \E id \in Inputs : ExecuteSync(id)
  \/ \E w \in Workers : WorkerTake(w)
  \/ emergency_stop_all
  \/ resume_execution
  \/ \E ex, fl \in CallbackBehaviours : SetCallbacks(ex, fl)
  \/ \E t \in Threads : Step(t)

Spec == Init /\ [][Next]_vars

\* the caller alone, dispatching inline: the macros run to their end
MacroInputs == {6, 7, 9, 10}

NextMacro ==
  \/ \E id \in MacroInputs : ExecuteShortCircuit(id, FALSE)
  \/ \E id \in MacroInputs : ExecuteSync(id)
  \/ emergency_stop_all
  \/ resume_execution
  \/ \E ex, fl \in CallbackBehaviours : SetCallbacks(ex, fl)
  \/ Step(Caller)
  \/ StepOfMacro(Caller)

SpecMacro == Init /\ [][NextMacro]_vars

\* the caller alone, dispatching inline macros as Action.from_dict reads them
\* from a stored profile, where loop_count is whatever the file holds; no
\* callback assigned and the flag left clear
StoredMacroInputs == {6, 7, 27}

NextStoredMacro ==
  \/ \E id \in StoredMacroInputs : ExecuteSync(id)
  \/ \E bk \in BackendBehaviours : DispatchPrimitive(Caller, bk)
  \/ StepOfMacro(Caller)
  \/ HistAppend(Caller)
  \/ HistCheck(Caller)
  \/ HistSlice(Caller)
  \/ HistAssign(Caller)
  \/ Callback(Caller)
  \/ Return(Caller)

SpecStoredMacro == Init /\ [][NextStoredMacro]_vars

\* the caller alone, dispatching inline the application actions the engine
\* does not implement, next to a mouse click
OutcomeInputs == {1, 4, 28, 29}

NextOutcome ==
  \/ \E id \in OutcomeInputs : ExecuteShortCircuit(id, FALSE)
  \/ \E id \in OutcomeInputs : ExecuteSync(id)
  \/ emergency_stop_all
  \/ resume_execution
  \/ \E ex, fl \in CallbackBehaviours : SetCallbacks(ex, fl)
  \/ Step(Caller)

SpecOutcome == Init /\ [][NextOutcome]_vars

\* the owner reading and clearing the history between inline calls
HistoryInputs == {1, 4}
HistoryLimits == {0, 1, 2}

NextHistory ==
  \/ \E id \in HistoryInputs : ExecuteSync(id)
  \/ \E bk \in BackendBehaviours : DispatchPrimitive(Caller, bk)
  \/ HistAppend(Caller)
  \/ HistCheck(Caller)
  \/ Callback(Caller)
  \/ Return(Caller)
  \/ \E limit \in HistoryLimits : GetExecutionHistory(limit)
  \/ ClearExecutionHistory

SpecHistory == Init /\ [][NextHistory]_vars

\* the pool alone: asynchronous submissions, a macro among them, no callback
\* assigned and the flag left clear
PoolInputs == {1, 9}

NextPool ==
  \/ \E id \in PoolInputs : ExecuteAsync(id)
  \/ \E w \in Workers : WorkerTake(w)
  \/ \E w \in Workers, bk \in BackendBehaviours : DispatchPrimitive(w, bk)
  \/ \E w \in Workers : StepOfMacro(w)
  \/ \E w \in Workers : HistAppend(w)
  \/ \E w \in Workers : HistCheck(w)
  \/ \E w \in Workers : HistSlice(w)
  \/ \E w \in Workers : HistAssign(w)
  \/ \E w \in Workers : Callback(w)
  \/ \E w \in Workers : Return(w)

SpecPool == Init /\ [][NextPool]_vars

\* the caller and the pool with callbacks that return, as the ones main.py
\* assigns do: no dispatch enters the except branch, and the MaxCalls
\* entries of the history never exceed MaxHistory
NextGate ==
  \/ \E id \in Inputs, async \in BOOLEAN : ExecuteShortCircuit(id, async)
  \/ \E id \in Inputs : ExecuteAsync(id)
  \/ \E id \in Inputs : ExecuteSync(id)
  \/ \E w \in Workers : WorkerTake(w)
  \/ emergency_stop_all
  \/ resume_execution
  \/ SetCallbacks("returns", "returns")
  \/ \E t \in Threads, bk \in BackendBehaviours : DispatchPrimitive(t, bk)
  \/ \E t \in Threads : HistAppend(t)
  \/ \E t \in Threads : HistCheck(t)
  \/ \E t \in Threads : Callback(t)
  \/ \E t \in Threads : Return(t)

SpecGate == Init /\ [][NextGate]_vars

\* the engine up to and after shutdown: submissions to the pool, inline
\* calls, then shutdown; no callback assigned, the flag left clear, and the
\* MaxCalls entries of the history never exceed MaxHistory
ShutdownInputs == {1}

NextShutdown ==
  \/ \E id \in ShutdownInputs : ExecuteAsync(id)
  \/ \E id \in ShutdownInputs : ExecuteSync(id)
  \/ \E id \in ShutdownInputs : ExecuteAfterShutdown(id)
  \/ \E w \in Workers : WorkerTake(w)
  \/ Shutdown
  \/ ShutdownReturn
  \/ \E t \in Threads, bk \in BackendBehaviours : DispatchPrimitive(t, bk)
  \/ \E t \in Threads : HistAppend(t)
  \/ \E t \in Threads : HistCheck(t)
  \/ \E t \in Threads : Callback(t)
  \/ \E t \in Threads : Return(t)

SpecShutdown == Init /\ [][NextShutdown]_vars

\* the same engine with its workers scheduled fairly: an idle worker takes
\* the work that waits, and a worker inside _execute_action_sync goes on to
\* its next step, the backend routine it called having returned or raised
WorkerStep(w) ==
  \/ \E bk \in BackendBehaviours : DispatchPrimitive(w, bk)
  \/ HistAppend(w)
  \/ HistCheck(w)
  \/ Callback(w)
  \/ Return(w)
FairWorkers ==
  \A w \in Workers : WF_vars(WorkerTake(w)) /\ WF_vars(WorkerStep(w))
SpecShutdownFair == SpecShutdown /\ FairWorkers

\* the engine under each configuration and host: the preferred library, the
\* libraries installed, the deny-list of the keyboard validator; the caller
\* then executes keyboard actions inline on the engine, if one was constructed
LibraryPreferences == {"pynput", "pyautogui"}
DenyLists == {dangerous_keys, <<"alt+f4">>}
ConfigInputs == {3, 8}

InitConfig ==
  \E library_preference \in LibraryPreferences, pynput_available \in BOOLEAN,
     pyautogui_available \in BOOLEAN, deny \in DenyLists :
    Constructed(Config(library_preference, pynput_available, pyautogui_available, deny))

NextConfig ==
  \/ \E id \in ConfigInputs : ExecuteShortCircuit(id, FALSE)
  \/ \E id \in ConfigInputs : ExecuteSync(id)
  \/ \E bk \in BackendBehaviours : DispatchPrimitive(Caller, bk)
  \/ HistAppend(Caller)
  \/ HistCheck(Caller)
  \/ Callback(Caller)
  \/ Return(Caller)

SpecConfig == InitConfig /\ [][NextConfig]_vars

\* the validator under each policy: the blocked and the allowed paths of
\* application launches, the confirmation flags of the types and the global
\* ones; its functions are then called on the actions of the table
BlockedLists == {blocked_paths, <<"/bin">>}
AllowedLists == {allowed_paths, <<"/Bin/a">>, <<"/usr">>}
TypeFlags == {confirmation_required, [type \in ActionTypes |-> FALSE]}
GlobalFlags ==
  {require_confirmation,
   [application_launch |-> TRUE, system_commands |-> FALSE],
   [application_launch |-> FALSE, system_commands |-> FALSE]}

Policy(blocked, allowed, type_flags, global_flags) ==
  [DefaultConfig EXCEPT !.blocked_paths = blocked, !.allowed_paths = allowed,
                        !.confirmation_required = type_flags,
                        !.require_confirmation = global_flags]

InitValidator ==
  \E blocked \in BlockedLists, allowed \in AllowedLists,
     type_flags \in TypeFlags, global_flags \in GlobalFlags :
    Constructed(Policy(blocked, allowed, type_flags, global_flags))

NextValidator ==
  \/ \E id \in ActionIds : ValidateAction(id)
  \/ \E id \in ActionIds : ValidateStored(id)
  \/ \E id \in ActionIds : RequiresConfirmation(id)

SpecValidator == InitValidator /\ [][NextValidator]_vars

\* the caller dispatching inline under each confirmation policy: a click, the
\* same click with its requires_confirmation flag set, and a launch, which
\* the shipped policy has confirmed
ConfirmInputs == {1, 21, 13}

InitConfirm ==
  \E type_flags \in TypeFlags, global_flags \in GlobalFlags :
    Constructed(Policy(blocked_paths, allowed_paths, type_flags, global_flags))

NextConfirm ==
  \/ \E id \in ConfirmInputs : ExecuteShortCircuit(id, FALSE)
  \/ \E id \in ConfirmInputs : ExecuteSync(id)
  \/ emergency_stop_all
  \/ resume_execution
  \/ \E bk \in BackendBehaviours : DispatchPrimitive(Caller, bk)
  \/ HistAppend(Caller)
  \/ HistCheck(Caller)
  \/ Callback(Caller)
  \/ Return(Caller)

SpecConfirm == InitConfirm /\ [][NextConfirm]_vars

\* the mapping manager on a new profile, called in any order: add_mapping for
\* two gestures, with a click the validator accepts and a pointer move it
\* rejects, remove_mapping, and update_mapping with the keywords the mapping
\* dialog passes (action and enabled; the gesture too when it was changed)
Gestures == {1, 2}
MappingActions == {1, 2}
DialogUpdates ==
  {[action |-> 1, enabled |-> e] : e \in BOOLEAN}
  \cup {[action |-> 1, enabled |-> e, gesture_name |-> g, gesture_type |-> "predefined"] :
          e \in BOOLEAN, g \in Gestures}

InitMappings == ConstructedWith(DefaultConfig, EmptyProfile)

NextMappings ==
  \/ \E g \in Gestures, id \in MappingActions : AddMapping(g, id)
  \/ \E m \in MappingIds : RemoveMapping(m)
  \/ \E m \in MappingIds, kwargs \in DialogUpdates : UpdateMapping(m, kwargs)

SpecMappings == InitMappings /\ [][NextMappings]_vars

\* the gestures main.py receives: each goes through its mapping to
\* execute_action in asynchronous mode and is run by a worker of the pool;
\* no callback assigned
GestureInputs == {m \in MappingIds : MappingTable[m].enabled}

NextGesture ==
  \/ \E m \in GestureInputs : GestureShortCircuit(m)
  \/ \E m \in GestureInputs : GestureSubmit(m)
  \/ \E w \in Workers : WorkerTake(w)
  \/ emergency_stop_all
  \/ resume_execution
  \/ \E w \in Workers, bk \in BackendBehaviours : DispatchPrimitive(w, bk)
  \/ \E w \in Workers : StepOfMacro(w)
  \/ \E w \in Workers : HistAppend(w)
  \/ \E w \in Workers : HistCheck(w)
  \/ \E w \in Workers : HistSlice(w)
  \/ \E w \in Workers : HistAssign(w)
  \/ \E w \in Workers : Callback(w)
  \/ \E w \in Workers : Return(w)

SpecGesture == Init /\ [][NextGesture]_vars

\* ---------------------------------------------------------------- claims
Calls == 1..Len(futures)
Rejected(k) == ~is_valid(ActionTable[futures[k].action])

\* C1: an action the validator rejects gets, from execute_action, a future
\* that is already resolved with success = false and VALIDATION_ERROR, in
\* either mode and with the flag set or clear, and no backend routine runs
\* for that call
C1_RejectedIsValidationError ==
  \A k \in Calls :
    Rejected(k) =>
      /\ futures[k].state = "done"
      /\ ~futures[k].result.success
      /\ futures[k].result.error_code = "VALIDATION_ERROR"
      /\ futures[k].result.action_id = futures[k].action
      /\ backend_calls[k] = 0

\* a rejected call made with the flag set, after a backend routine ran for
\* another call
C1_Witness ==
  \E k, j \in Calls :
    /\ Rejected(k) /\ futures[k].stopped
    /\ futures[k].result.error_code = "VALIDATION_ERROR"
    /\ backend_calls[j] > 0

\* C2 as stated: every call made while the flag is set returns
\* EMERGENCY_STOP and reaches no backend routine
C2_StoppedIsEmergencyStop ==
  \A k \in Calls :
    futures[k].stopped =>
      /\ futures[k].result.error_code = "EMERGENCY_STOP"
      /\ backend_calls[k] = 0

\* C2 amended: a call made while the flag is set returns at once a failed
\* result and reaches no backend routine; its error code is EMERGENCY_STOP
\* for an action the validator accepts and VALIDATION_ERROR for one it
\* rejects
C2_StoppedIsShortCircuit ==
  \A k \in Calls :
    futures[k].stopped =>
      /\ futures[k].state = "done"
      /\ ~futures[k].result.success
      /\ futures[k].result.error_code =
           (IF Rejected(k) THEN "VALIDATION_ERROR" ELSE "EMERGENCY_STOP")
      /\ backend_calls[k] = 0

\* a valid action stopped by the flag, in each mode
C2_Witness ==
  \E k, j \in Calls :
    /\ futures[k].stopped /\ ~Rejected(k) /\ futures[k].async
    /\ futures[k].result.error_code = "EMERGENCY_STOP"
    /\ futures[j].stopped /\ ~Rejected(j) /\ ~futures[j].async
    /\ futures[j].result.error_code = "EMERGENCY_STOP"

\* the calls of _execute_action_sync in progress, nested ones included
Frames == {<<t, k>> \in Threads \X (1..(2 + max_sequence_length)) : k <= Len(stack[t])}
Frame(p) == stack[p[1]][p[2]]
\* a call that is about to return its result, or to raise
Leaving(f) == f.pc \in {"return", "raise"}
\* a call whose type branch is over: its result is built
Concluding(f) == f.pc \in {"hist_append", "hist_check", "hist_slice", "hist_assign",
                           "callback", "return", "raise"}
IsMacro(f) == ActionTable[f.action].type = "macro"

\* C3 as stated, for an engine with both callbacks assigned: a call of
\* _execute_action_sync ends with exactly one callback invoked, the one that
\* matches the success flag of its result
C3_ExactlyOneCallback ==
  \A p \in Frames :
    (Leaving(Frame(p)) /\ on_action_executed # "None" /\ on_action_failed # "None") =>
      /\ Frame(p).pc = "return"
      /\ Frame(p).n_executed + Frame(p).n_failed = 1
      /\ (Frame(p).n_executed = 1) <=> Frame(p).result.success

\* C4 as stated, read at the points where no thread is between the append
\* and the trim of _add_to_history: the history holds at most MaxHistory
\* entries, and they are the most recent ones recorded, in their order
InAddToHistory(f) == f.pc \in {"hist_check", "hist_slice", "hist_assign"}
C4_HistoryBoundedFifo ==
  (\A p \in Frames : ~InAddToHistory(Frame(p))) =>
     /\ Len(execution_history) <= MaxHistory
     /\ execution_history = last_entries(recorded, MaxHistory)

\* C5 as stated: a dispatch whose backend routine raised ends with
\* success = false and EXECUTION_ERROR
C5_BackendExceptionIsExecutionError ==
  \A p \in Frames :
    (Frame(p).backend = "raises" /\ Concluding(Frame(p)) /\ Frame(p).pc # "raise") =>
      /\ ~Frame(p).result.success
      /\ Frame(p).result.error_code = "EXECUTION_ERROR"

\* C6 as stated: no call of _execute_action_sync raises, and the result a
\* call returns carries the id of its action
C6_NeverRaises ==
  \A p \in Frames :
    /\ Frame(p).pc # "raise"
    /\ Frame(p).pc = "return" => Frame(p).result.action_id = Frame(p).action

\* C7 as stated: a call of _execute_action_sync that returns has appended
\* exactly one entry, with the success flag and error code of its result
C7_OneEntryPerCall ==
  \A p \in Frames :
    Frame(p).pc = "return" =>
      /\ Len(Frame(p).appended) = 1
      /\ Frame(p).appended[1].action = Frame(p).action
      /\ Frame(p).appended[1].success = Frame(p).result.success
      /\ Frame(p).appended[1].error_code = Frame(p).result.error_code

\* C8: a call of execute_action that returns VALIDATION_ERROR or
\* EMERGENCY_STOP changes nothing but the handle it returns (history, pool,
\* running calls and their callbacks, flag), and every entry of the history
\* comes from a call that was dispatched
ShortCircuitCodes == {"VALIDATION_ERROR", "EMERGENCY_STOP"}
C8_ShortCircuitStep ==
  /\ Len(futures') = Len(futures) + 1
  /\ futures'[Len(futures')].result.error_code \in ShortCircuitCodes
C8_ShortCircuitChangesNothing ==
  /\ [][C8_ShortCircuitStep =>
          UNCHANGED <<execution_history, recorded, pool, active_futures, stack, job,
                      emergency_stop, on_action_executed, on_action_failed>>]_vars
  /\ [](\A n \in 1..Len(execution_history) :
          /\ execution_history[n].error_code \notin ShortCircuitCodes
          /\ futures[execution_history[n].timestamp[1]].result.error_code
               \notin ShortCircuitCodes)

\* a call that returned at once, next to a call that was dispatched and
\* recorded
C8_Witness ==
  /\ \E k \in Calls : futures[k].result.error_code \in ShortCircuitCodes
  /\ execution_history # <<>>

\* the sequence of a macro repeated loop_count times
RECURSIVE Repeated(_, _)
Repeated(sequence, n) == IF n <= 0 THEN <<>> ELSE sequence \o Repeated(sequence, n - 1)
IsPrefix(u, v) == Len(u) <= Len(v) /\ u = SubSeq(v, 1, Len(u))

\* C9: the sub-actions a macro has dispatched are a prefix of its sequence
\* repeated loop_count times, and it has at most one of them in progress:
\* the one above it on the stack while it waits, none otherwise
C9_MacroDispatchesInOrder ==
  \A p \in Frames :
    IsMacro(Frame(p)) =>
      LET f == Frame(p)
          a == ActionTable[f.action] IN
      /\ IsPrefix(f.dispatched, Repeated(a.sequence, a.loop_count))
      /\ (f.pc = "macro_wait") <=> (p[2] < Len(stack[p[1]]))
      /\ f.pc \in {"macro_wait", "macro_after"} => Len(f.dispatched) = f.executed_actions + 1
      /\ f.pc = "macro_check" => Len(f.dispatched) = f.executed_actions
      /\ Len(f.dispatched) \in {f.executed_actions, f.executed_actions + 1}

\* a macro in its second loop
C9_Witness ==
  \E p \in Frames :
    /\ IsMacro(Frame(p))
    /\ Len(Frame(p).dispatched) > Len(ActionTable[Frame(p).action].sequence) + 1

\* C10 as stated: the message of a macro that failed at a sub-action
\* reports the number of sub-actions dispatched so far
FailedAtSub(f) ==
  /\ IsMacro(f) /\ Concluding(f) /\ ~f.in_except
  /\ f.result.message.kind = "Macro failed at action {i+1} (loop {loop+1}): {message}"
C10_MessageReportsExecutedCount ==
  \A p \in Frames :
    FailedAtSub(Frame(p)) =>
      Frame(p).executed_actions \in {Frame(p).result.message.n, Frame(p).result.message.m}

\* C10 amended: once a nested dispatch returned a failed result the macro
\* dispatches nothing more: it returns a failure whose message names the
\* 1-based position of that sub-action and the 1-based loop, while the
\* sub-actions dispatched number (loop - 1) * len(sequence) + position
C10_MacroStopsAtFailure ==
  \A p \in Frames :
    LET f == Frame(p)
        a == ActionTable[f.action] IN
    (IsMacro(f) /\ f.sub.action_id # 0 /\ ~f.sub.success /\ f.pc # "macro_after") =>
      /\ Concluding(f)
      /\ f.executed_actions = f.loop * Len(a.sequence) + f.i + 1
      /\ Len(f.dispatched) = f.executed_actions
      /\ f.dispatched[Len(f.dispatched)] = f.sub.action_id
      /\ ~f.result.success
      /\ ~f.in_except =>
           f.result.message =
             Msg("Macro failed at action {i+1} (loop {loop+1}): {message}", f.i + 1, f.loop + 1)

\* the 3-step macro failing at step 2 of its second loop, after 5 dispatches
C10_Witness ==
  \E p \in Frames :
    /\ FailedAtSub(Frame(p))
    /\ Len(ActionTable[Frame(p).action].sequence) = 3
    /\ Frame(p).result.message.n = 2 /\ Frame(p).result.message.m = 2
    /\ Len(Frame(p).dispatched) = 5

\* C11: a macro with an empty sequence passes the validator, so that
\* execute_action dispatches it when the flag is clear; the dispatch makes no
\* nested call and ends with success = false, with the message "Macro
\* sequence is empty" unless a raising callback had the result replaced
EmptyMacro(id) == ActionTable[id].type = "macro" /\ ActionTable[id].sequence = <<>>
C11_EmptyMacroFailsAtDispatch ==
  /\ \A id \in ActionIds : EmptyMacro(id) => is_valid(ActionTable[id])
  /\ \A k \in Calls :
        (EmptyMacro(futures[k].action) /\ ~futures[k].stopped) =>
          /\ futures[k].result.error_code # "VALIDATION_ERROR"
          /\ backend_calls[k] = 0
          /\ futures[k].state = "done" => ~futures[k].result.success
  /\ \A p \in Frames :
        EmptyMacro(Frame(p).action) =>
          /\ Frame(p).dispatched = <<>>
          /\ p[2] = Len(stack[p[1]])
          /\ Frame(p).pc \notin {"macro_check", "macro_wait", "macro_after"}
          /\ Concluding(Frame(p)) => ~Frame(p).result.success
          /\ Frame(p).appended # <<>> =>
                Frame(p).appended[1].message = Msg("Macro sequence is empty", 0, 0)

\* the empty macro dispatched and about to return its failure
C11_Witness ==
  \E p \in Frames :
    /\ EmptyMacro(Frame(p).action)
    /\ Frame(p).pc = "return"
    /\ Frame(p).result.message = Msg("Macro sequence is empty", 0, 0)

\* C12 as stated: no notification callback is invoked for a sub-action of a
\* macro; only the call for the macro itself invokes one
C12_NoCallbackForSubAction ==
  \A p \in Frames :
    p[2] > 1 => Frame(p).n_executed + Frame(p).n_failed = 0

\* C13 as stated: once N asynchronous calls of valid actions that are not
\* macros, made with the flag clear, N <= MaxHistory, have all resolved, the
\* history holds N entries, one for each call
AllResolved ==
  /\ pool = <<>>
  /\ \A t \in Threads : stack[t] = <<>>
  /\ \A k \in Calls : futures[k].state # "pending"
AsyncPrimitive(k) ==
  /\ futures[k].async /\ ~futures[k].stopped /\ ~Rejected(k)
  /\ ActionTable[futures[k].action].type # "macro"
EntriesOf(k) == {n \in 1..Len(execution_history) : execution_history[n].timestamp[1] = k}
C13_OneEntryPerAsyncAction ==
  (/\ AllResolved
   /\ Len(futures) <= MaxHistory
   /\ \A k \in Calls : AsyncPrimitive(k)) =>
     /\ Len(execution_history) = Len(futures)
     /\ \A k \in Calls : Cardinality(EntriesOf(k)) = 1

\* C14 as stated: while the flag is set no worker begins the dispatch of an
\* action waiting in the pool, and no backend routine is started for an
\* action that went through the pool
C14_NoDispatchWhileStopped ==
  /\ [][Len(pool') < Len(pool) => ~emergency_stop]_vars
  /\ [][\A k \in Calls :
         (futures[k].async /\ backend_calls'[k] > backend_calls[k]) => ~emergency_stop]_vars

\* C15 as stated: no call of execute_action made after shutdown returned
\* leads to a backend routine, in either mode
C15_NoDispatchAfterShutdown ==
  \A k \in Calls : futures[k].shut => backend_calls[k] = 0

\* C16: once shutdown has returned, every action submitted to the pool before
\* it has been dispatched to completion: its future is resolved and its entry
\* was appended to the history, where it still is when nothing was trimmed
EntryRecorded(k, history) ==
  \E n \in 1..Len(history) :
    /\ history[n].timestamp[1] = k
    /\ history[n].action = futures[k].action
C16_ShutdownDrainsThePool ==
  is_running = "shut_down" =>
    /\ pool = <<>>
    /\ \A k \in Calls :
          (futures[k].async /\ ~futures[k].shut) =>
            /\ futures[k].state = "done"
            /\ futures[k].result.action_id = futures[k].action
            /\ EntryRecorded(k, recorded)
            /\ Len(recorded) <= MaxHistory => EntryRecorded(k, execution_history)

\* shutdown returned after two submissions to the pool, both dispatched and
\* recorded
C16_Witness ==
  /\ is_running = "shut_down"
  /\ Len(futures) = 2
  /\ \A k \in Calls : futures[k].async /\ futures[k].state = "done"
  /\ \A k \in Calls : EntryRecorded(k, execution_history)

\* C17 as stated: the actions accepted by execute_action and not yet taken
\* by a worker never number more than the configured queue capacity
C17_PendingWithinQueueCapacity == Len(pool) <= QueueMaxSize

\* C18: a step that changes the flag changes nothing else, and a valid action
\* submitted while the flag is clear is dispatched, however many stops and
\* resumes came before: it is not short-circuited and, once resolved, its
\* backend routine has run once
C18_FlagStep ==
  emergency_stop' # emergency_stop =>
    UNCHANGED <<query, mappings, config, is_running, input_library, execution_history, on_action_executed,
                on_action_failed, pool, active_futures, futures, stack, job,
                backend_calls, built, recorded>>
C18_ResumeClearsTheFlag ==
  /\ [][C18_FlagStep]_vars
  /\ [](\A k \in Calls :
          (~futures[k].stopped /\ ~Rejected(k)) =>
            /\ futures[k].result.error_code \notin ShortCircuitCodes
            /\ futures[k].state = "done" => backend_calls[k] = 1)

\* a call stopped by the flag, then, after resume_execution, a call
\* dispatched to its end
C18_Witness ==
  \E k, j \in Calls :
    /\ k < j
    /\ futures[k].stopped /\ futures[k].result.error_code = "EMERGENCY_STOP"
    /\ ~futures[j].stopped /\ futures[j].state = "done"
    /\ futures[j].result.success /\ backend_calls[j] = 1

\* C19 as stated: construction selects the preferred library when it is
\* installed, otherwise whichever of the two is installed, and fails only
\* when neither is; with pyautogui alone installed it selects pyautogui
Available(library) ==
  \/ library = "pynput" /\ config.pynput_available
  \/ library = "pyautogui" /\ config.pyautogui_available
C19_OneBackendSelected ==
  /\ Available(config.input_library) => input_library = config.input_library
  /\ (config.pynput_available \/ config.pyautogui_available) =>
        input_library \in {"pynput", "pyautogui"} /\ Available(input_library)
  /\ ~(config.pynput_available \/ config.pyautogui_available) =>
        input_library = "RuntimeError"
  /\ (~config.pynput_available /\ config.pyautogui_available) =>
        input_library = "pyautogui"

\* C20 as stated: whenever the deny-list holds "alt+f4", execute_action
\* returns VALIDATION_ERROR for the key combination keys = ["f4"],
\* modifiers = ["alt"]
DenyListHolds(key) == \E n \in 1..Len(config.dangerous_keys) : config.dangerous_keys[n] = key
IsAltF4(a) ==
  /\ a.type = "keyboard" /\ a.subtype = "key_combination"
  /\ a.keys = <<"f4">> /\ a.modifiers = <<"alt">>
C20_AltF4Rejected ==
  \A k \in Calls :
    (DenyListHolds("alt+f4") /\ IsAltF4(ActionTable[futures[k].action])) =>
      /\ futures[k].result.error_code = "VALIDATION_ERROR"
      /\ backend_calls[k] = 0

\* the action a call of a validator function was given
Asked(function) == query.function = function
Subject == ActionTable[query.action]
IsLaunch(a) == a.type = "application" /\ a.subtype = "launch"

\* C21: a launch whose path contains a blocked path, letter case set aside,
\* is rejected whatever the allow-list holds, also when the path matches an
\* allowed entry; a launch with an empty path is rejected; with a non-empty
\* allow-list a path that matches no allowed entry is rejected
C21_LaunchPathPolicy ==
  (Asked("validate_action") /\ IsLaunch(Subject)) =>
    LET path == lower(Chars(Subject.path))
        blocked == \E k \in 1..Len(config.blocked_paths) :
                      Contains(lower(Chars(config.blocked_paths[k])), path)
        allowed == \E k \in 1..Len(config.allowed_paths) :
                      Contains(lower(Chars(config.allowed_paths[k])), path) IN
    /\ Subject.path = "" => ~query.result.is_valid
    /\ blocked => ~query.result.is_valid
    /\ (config.allowed_paths # <<>> /\ ~allowed) => ~query.result.is_valid
C21_Witness ==
  /\ Asked("validate_action") /\ query.action = 12
  /\ config.blocked_paths = <<"/bin">> /\ config.allowed_paths = <<"/Bin/a">>
  /\ ~query.result.is_valid

\* C22: a macro longer than max_sequence_length is rejected; a macro within
\* the limit is accepted exactly when every sub-action of its sequence is
\* accepted, and a rejected one names the position, counted from 1, of its
\* first sub-action that is not
SubAccepted(a, k) ==
  /\ from_dict_raises(action_data(a.sequence[k])) = ""
  /\ is_valid(from_dict(action_data(a.sequence[k])))
FirstInvalid(a) ==
  CHOOSE k \in 1..Len(a.sequence) :
    ~SubAccepted(a, k) /\ \A j \in 1..(k - 1) : SubAccepted(a, j)
C22_MacroValidation ==
  (Asked("validate_action") /\ Subject.type = "macro") =>
    IF Len(Subject.sequence) > max_sequence_length
    THEN ~query.result.is_valid
    ELSE /\ query.result.is_valid <=>
              \A k \in 1..Len(Subject.sequence) : SubAccepted(Subject, k)
         /\ ~query.result.is_valid =>
              query.result.error_message.n = FirstInvalid(Subject)
C22_Witness ==
  /\ Asked("validate_action") /\ query.action = 15
  /\ ~query.result.is_valid /\ query.result.error_message.n = 2

\* C23 as stated: no macro is dispatched from inside another macro
C23_NoNestedMacroDispatched ==
  \A p \in Frames : p[2] > 1 => ~IsMacro(Frame(p))

\* C24: an action read back from its dictionary is built without an
\* exception, has the id, type, subtype and parameters of the original and
\* gets from validate_action what the original gets
C24_RoundTrip ==
  Asked("validate_stored") =>
    LET b == from_dict(to_dict(Subject)) IN
    /\ from_dict_raises(to_dict(Subject)) = ""
    /\ query.result = validate_action(Subject)
    /\ b.id = Subject.id /\ b.type = Subject.type /\ b.subtype = Subject.subtype
    /\ b.parameters_class = Subject.parameters_class
    /\ \A field \in ParameterFields : b[field] = Subject[field]
C24_Witness ==
  /\ Asked("validate_stored") /\ query.action = 2
  /\ ~query.result.is_valid

\* C25: validate_action returns a pair for every action, no exception leaves
\* it: not for parameters left unset, not for a macro whose sub-action data
\* cannot be rebuilt
C25_ValidateNeverRaises ==
  Asked("validate_action") =>
    /\ query.result.raised = ""
    /\ query.result.is_valid \in BOOLEAN
C25_Witness ==
  /\ Asked("validate_action") /\ query.action = 16
  /\ query.result.raised = "" /\ ~query.result.is_valid
  /\ query.result.error_message.kind = "Invalid action data at position {i+1}: {e}"

\* C26 as stated: no call of _execute_action_sync on an action whose
\* enabled flag is false reaches a backend routine, be it the action of a
\* gesture mapping or a sub-action of a macro
C26_DisabledNeverDispatched ==
  \A p \in Frames : ~ActionTable[Frame(p).action].enabled => Frame(p).backend = ""

\* C27 as stated: the use_count of a mapping counts only the gestures whose
\* action was dispatched and succeeded
SucceededFor(m) ==
  {n \in 1..Len(mappings[m].futures) :
     /\ futures[mappings[m].futures[n]].state = "done"
     /\ futures[mappings[m].futures[n]].result.success}
C27_UsageOnlyAfterSuccess ==
  \A m \in MappingIds : mappings[m].use_count <= Cardinality(SucceededFor(m))

\* C28: requires_confirmation is true exactly when the flag of the action's
\* type, the flag of the action itself or the global flag keyed by its type
\* (application_launch, system_commands) is set
C28_ConfirmationIsTheOrOfTheFlags ==
  Asked("requires_confirmation") =>
    (query.result.is_valid <=>
       \/ config.confirmation_required[Subject.type]
       \/ Subject.requires_confirmation
       \/ Subject.type = "application" /\ config.require_confirmation.application_launch
       \/ Subject.type = "system" /\ config.require_confirmation.system_commands)
C28_Witness ==
  /\ Asked("requires_confirmation") /\ query.action = 21
  /\ ~config.confirmation_required["mouse"]
  /\ query.result.is_valid

\* C29 as stated: an accepted mouse action has every coordinate that is set
\* (x, y, from_x, from_y, to_x, to_y) within [0, MaxCoord] and one of the
\* three buttons
C29_AcceptedPointerInRange ==
  (Asked("validate_action") /\ Subject.type = "mouse" /\ query.result.is_valid) =>
    /\ \A field \in {"x", "y", "from_x", "from_y", "to_x", "to_y"} :
         IsNone(Subject[field]) \/ Val(Subject[field]) \in 0..MaxCoord
    /\ Subject.button \in {"left", "right", "middle"}

\* C30 as stated: a macro that is running while the flag is set ends by an
\* abort: it does not conclude with success
StoppedMessage(n) == Msg("Macro stopped by emergency stop after {n} actions", n, 0)
ConcludesMacro(t) ==
  /\ stack[t] # <<>> /\ Len(stack'[t]) = Len(stack[t])
  /\ IsMacro(Top(t)) /\ Top(t).pc \in {"macro_check", "macro_dispatch", "macro_after"}
  /\ stack'[t][Len(stack[t])].pc = "hist_append"
C30_MacroAbortsOnceStopped ==
  [][\A t \in Threads :
       (emergency_stop /\ ConcludesMacro(t)) =>
          ~stack'[t][Len(stack[t])].result.success]_vars

\* C30: a macro starts a sub-action only after a check of the flag of its
\* own, and a check that finds the flag set ends the macro with the message
\* that gives the number of sub-actions executed; so between the flag being
\* set and the abort lies at most the one sub-action whose check had passed
StartsSubAction(t) == stack[t] # <<>> /\ Len(stack'[t]) = Len(stack[t]) + 1
C30_AtMostOneSubActionAfterStop ==
  [][\A t \in Threads :
       /\ StartsSubAction(t) => Top(t).pc = "macro_dispatch"
       /\ (stack'[t] # stack[t] /\ Running(t, "macro_dispatch")) => StartsSubAction(t)
       /\ (stack'[t] # stack[t] /\ Running(t, "macro_check")) =>
            IF emergency_stop
            THEN /\ Len(stack'[t]) = Len(stack[t])
                 /\ stack'[t][Len(stack[t])].pc = "hist_append"
                 /\ ~stack'[t][Len(stack[t])].result.success
                 /\ stack'[t][Len(stack[t])].result.message
                      = StoppedMessage(Len(Top(t).dispatched))
            ELSE stack'[t][Len(stack[t])].pc = "macro_dispatch"]_vars
C30_Witness ==
  \E p \in Frames :
    /\ IsMacro(Frame(p)) /\ Concluding(Frame(p))
    /\ Frame(p).result.message.kind = StoppedMessage(0).kind
    /\ Frame(p).result.message.n >= 1
    /\ Len(Frame(p).dispatched) = Frame(p).result.message.n

\* C31 as stated: _add_to_history is atomic with respect to the other
\* workers, so the list a worker assigns in the trim is the tail of the
\* history as it is at that moment, and no entry another worker appended in
\* between is lost
Trims(t) == Running(t, "hist_assign") /\ stack'[t] # stack[t]
C31_TrimKeepsConcurrentAppend ==
  [][\A t \in Threads :
       Trims(t) => execution_history' = last_entries(execution_history, MaxHistory)]_vars

\* C32 as stated, read on the (success, message) that _execute_macro_action
\* returned for a macro whose sequence is not empty (an empty one is the
\* failure of C11): the macro succeeded exactly when it dispatched loop_count
\* times len(sequence) sub-actions and the last of them, as every one before
\* it, succeeded; a macro goes on past a sub-action only when it succeeded;
\* and a macro that succeeded dispatched at least one sub-action
MacroReturned(f) ==
  /\ IsMacro(f) /\ Concluding(f) /\ ~f.in_except
  /\ ActionTable[f.action].sequence # <<>>
C32_MacroSucceedsIffAllDispatched ==
  \A p \in Frames :
    LET f == Frame(p)
        a == ActionTable[f.action]
        N == a.loop_count * Len(a.sequence) IN
    /\ (IsMacro(f) /\ f.pc \in {"macro_check", "macro_dispatch"} /\ f.executed_actions > 0) =>
         f.sub.success
    /\ MacroReturned(f) =>
         /\ f.result.success <=>
              /\ Len(f.dispatched) = N
              /\ f.executed_actions = N
              /\ N > 0 => f.sub.success
         /\ f.result.success => Len(f.dispatched) >= 1

\* C33: every result the engine builds or returns has one of the four
\* error codes, and the empty one when it is a success; a dispatch of an
\* application action other than launch, or of an unknown subtype or type,
\* reaches no backend routine and fails, and the result returned for it has
\* success = false and an empty error code
ErrorCodes == {"", "VALIDATION_ERROR", "EMERGENCY_STOP", "EXECUTION_ERROR"}
WellCoded(result) ==
  /\ result.error_code \in ErrorCodes
  /\ result.success => result.error_code = ""
Unsupported(a) ==
  \/ a.type = "application" /\ a.subtype # "launch"
  \/ a.type \in {"mouse", "keyboard"} /\ a.subtype \notin AllowedActions(a.type)
  \/ a.type \notin {"mouse", "keyboard", "application", "macro"}
C33_ErrorCodesAndUnsupported ==
  /\ \A p \in Frames : Concluding(Frame(p)) => WellCoded(Frame(p).result)
  /\ \A k \in Calls : futures[k].state = "done" => WellCoded(futures[k].result)
  /\ \A id \in ActionIds, bk \in {"ok", "raises"} :
       Unsupported(ActionTable[id]) =>
         LET o == execute_primitive(ActionTable[id], input_library, bk) IN
         ~o.success /\ ~o.invoked
  /\ \A p \in Frames :
       (Unsupported(ActionTable[Frame(p).action]) /\ Frame(p).pc = "return") =>
         /\ ~Frame(p).result.success
         /\ Frame(p).result.error_code = ""
  /\ \A k \in Calls :
       (/\ Unsupported(ActionTable[futures[k].action])
        /\ futures[k].state = "done"
        /\ ~futures[k].stopped /\ ~Rejected(k)) =>
         /\ ~futures[k].result.success
         /\ futures[k].result.error_code = ""
         /\ backend_calls[k] = 0

\* execute_action returned the failure of a minimize, which falls to the
\* else branch of _execute_application_action
C33_Witness ==
  \E k \in Calls :
    /\ ActionTable[futures[k].action].subtype = "minimize"
    /\ futures[k].state = "done"
    /\ futures[k].result.message = Msg("Unsupported application action: {subtype}", 0, 0)
    /\ futures[k].result.error_code = ""

\* C38 as stated: a dispatch whose backend routine succeeded leaves
\* _execute_action_sync with success = true, whatever its callbacks did, with
\* exactly one entry appended to the history, a success, and on_action_failed
\* never invoked for it
BackendSucceeded(f) == f.backend = "ok" /\ ~IsMacro(f)
C38_CallbackCannotUndoSuccess ==
  \A p \in Frames :
    (BackendSucceeded(Frame(p)) /\ Leaving(Frame(p))) =>
      /\ Frame(p).pc = "return"
      /\ Frame(p).result.success
      /\ Frame(p).result.error_code = ""
      /\ Len(Frame(p).appended) = 1
      /\ Frame(p).appended[1].success
      /\ Frame(p).n_failed = 0

\* C34: a call of execute_action with async_execution=False that dispatches
\* is unresolved only while the caller is inside it; the step that returns
\* from it has the history entry of the action appended and the callback
\* that matches the result invoked, and resolves the handle with the result
\* of the dispatch; and on the caller as on a worker that result is the one
\* function of the action and of what the backend did
InlineOpen(k) == ~futures[k].async /\ futures[k].state = "pending"
InlineOnCaller ==
  \A k \in Calls : InlineOpen(k) => (job[Caller] = k /\ stack[Caller] # <<>>)
DispatchResult(f) ==
  LET o == execute_primitive(ActionTable[f.action], input_library, f.backend) IN
  /\ f.result.success = o.success
  /\ f.result.message = o.message
  /\ f.result.error_code = ""
  /\ f.result.action_id = f.action
SameOnEitherPath ==
  \A t \in Threads : Running(t, "return") => DispatchResult(Top(t))
InlineReturns ==
  (Running(Caller, "return") /\ stack'[Caller] = <<>>) =>
    LET f == Top(Caller)
        k == job[Caller] IN
    /\ ~futures[k].async
    /\ f.appended = <<history_entry(f.action, f.result)>>
    /\ \E n \in 1..Len(recorded) : recorded[n] = f.appended[1]
    /\ callback_for(f.result.success, FALSE, on_action_executed, on_action_failed) # "" =>
         f.n_executed + f.n_failed = 1
    /\ futures'[k].state = "done"
    /\ futures'[k].result = f.result
C34_InlineDispatch ==
  [][InlineOnCaller' /\ SameOnEitherPath' /\ InlineReturns]_vars

\* an inline call and a submitted call of the same action have both
\* resolved, with the same outcome, and the history has the entry of the
\* inline one
C34_Witness ==
  \E j, k \in Calls :
    /\ ~futures[j].async /\ futures[k].async
    /\ futures[j].action = futures[k].action
    /\ futures[j].state = "done" /\ futures[k].state = "done"
    /\ futures[j].result.success /\ futures[k].result.success
    /\ futures[j].result.message = futures[k].result.message
    /\ \E n \in 1..Len(execution_history) :
         execution_history[n] = history_entry(futures[j].action, futures[j].result)

\* C35: under fair workers, every action that execute_action submitted to
\* the pool is dispatched and its future resolves with the result of that
\* dispatch, its backend routine having run once and never more, whether or
\* not shutdown is called while it waits or runs
Accepted(k) == k \in Calls /\ futures[k].async /\ futures[k].state = "pending"
Resolved(k) ==
  /\ k \in Calls /\ futures[k].state = "done"
  /\ futures[k].result.action_id = futures[k].action
  /\ futures[k].result.error_code = ""
  /\ backend_calls[k] = 1
C35_AcceptedIsEventuallyResolved ==
  /\ [](\A k \in Calls : backend_calls[k] <= 1)
  /\ \A k \in 1..MaxCalls : Accepted(k) ~> Resolved(k)

\* shutdown has been called while a submitted action waits in the pool and
\* another is resolved
C35_Witness ==
  /\ is_running = "shutting_down"
  /\ pool # <<>>
  /\ \E k \in Calls : Resolved(k) /\ futures[k].async

\* C36 as stated: the list get_execution_history(limit) returned holds at
\* most limit entries, the most recent ones of the history it was taken
\* from, in their order; none for limit = 0
C36_AtMostLimitMostRecent ==
  Asked("get_execution_history") =>
    LET limit == query.action
        s == query.result.returned
        h == query.result.history IN
    /\ Len(s) <= limit
    /\ Len(s) = (IF Len(h) < limit THEN Len(h) ELSE limit)
    /\ s = SubSeq(h, Len(h) - Len(s) + 1, Len(h))
    /\ limit = 0 => s = <<>>

\* C37: what execute_action returns and the backend calls it makes are those
\* of the action with its requires_confirmation flag cleared, under every
\* confirmation policy: the error code of its checks, the result of the
\* dispatch, and one backend call for a dispatched click or launch; so two
\* calls whose actions differ in that flag only, made with the same flag of
\* the interlock and with the backend routine ending alike (it returned in
\* both or raised in both), return the same result
WithoutConfirmation(a) == [a EXCEPT !.requires_confirmation = FALSE]
Twins(a, b) ==
  WithoutConfirmation([a EXCEPT !.id = 0]) = WithoutConfirmation([b EXCEPT !.id = 0])
C37_ConfirmationIsAdvisory ==
  /\ \A k \in Calls :
       LET plain == WithoutConfirmation(ActionTable[futures[k].action]) IN
       futures[k].state = "done" =>
         /\ ~is_valid(plain) => futures[k].result.error_code = "VALIDATION_ERROR"
         /\ (is_valid(plain) /\ futures[k].stopped) =>
              futures[k].result.error_code = "EMERGENCY_STOP"
         /\ (is_valid(plain) /\ ~futures[k].stopped) =>
              /\ futures[k].result.error_code = ""
              /\ backend_calls[k] = 1
  /\ \A p \in Frames :
       LET f == Frame(p)
           o == execute_primitive(WithoutConfirmation(ActionTable[f.action]),
                                  input_library, f.backend) IN
       f.pc = "return" =>
         /\ f.result.success = o.success
         /\ f.result.message = o.message
         /\ f.result.error_code = ""
  /\ \A j, k \in Calls :
       (/\ Twins(ActionTable[futures[j].action], ActionTable[futures[k].action])
        /\ futures[j].state = "done" /\ futures[k].state = "done"
        /\ futures[j].stopped = futures[k].stopped
        /\ behaviours_of(ActionTable[futures[j].action]) = {"ok", "raises"}
        /\ futures[j].result.success = futures[k].result.success) =>
         /\ futures[j].result.message = futures[k].result.message
         /\ futures[j].result.error_code = futures[k].result.error_code
         /\ backend_calls[j] = backend_calls[k]

\* the click that requires confirmation and the plain click both dispatched,
\* once each, with the same successful result
C37_Witness ==
  \E j, k \in Calls :
    /\ futures[j].action = 1 /\ futures[k].action = 21
    /\ requires_confirmation(ActionTable[21]) /\ ~requires_confirmation(ActionTable[1])
    /\ futures[j].state = "done" /\ futures[k].state = "done"
    /\ futures[j].result.success /\ futures[k].result.success
    /\ futures[j].result.message = futures[k].result.message
    /\ backend_calls[j] = 1 /\ backend_calls[k] = 1

\* C39 as stated: the profile never holds two enabled mappings of one
\* gesture; add_mapping returns None for an action the validator rejects or
\* a gesture that has an enabled mapping, and a step after which add_mapping
\* is the last call made changed the mappings only if it returned an id
EnabledFor(gesture_name, gesture_type) ==
  {m \in MappingIds :
     /\ mappings[m].stored = "stored" /\ mappings[m].enabled
     /\ mappings[m].gesture_name = gesture_name
     /\ mappings[m].gesture_type = gesture_type}
OneEnabledMappingPerGesture ==
  \A g \in Gestures : Cardinality(EnabledFor(g, "predefined")) <= 1
AddMappingReturnsNone ==
  (/\ Asked("add_mapping")
   /\ ~is_valid(ActionTable[query.action]) \/ query.result.existing # 0) =>
     query.result.returned = 0
AddMappingLeavesUnchanged ==
  (query'.function = "add_mapping" /\ mappings' # mappings) => query'.result.returned # 0
C39_OneEnabledMappingPerGesture ==
  /\ [](OneEnabledMappingPerGesture /\ AddMappingReturnsNone)
  /\ [][AddMappingLeavesUnchanged]_vars

====
